---- MODULE Spec2Model ----
(***************************************************************************)
(* A model of recator's duplicate detection engine (recator/detector.py),  *)
(* its stable hashing primitive (recator/hashing.py) and the analysis      *)
(* entry point (recator/__init__.py), on batches of the records that       *)
(* recator/scanner.py and recator/analyzer.py produce.                     *)
(*                                                                         *)
(* Text is a sequence of character codes (ASCII, so a character is one     *)
(* UTF-8 byte).  A 64-bit accumulator is a little-endian sequence of       *)
(* 16-bit limbs, because the values exceed the checker's integers; an      *)
(* unmasked product simply has more than 4 limbs.  A Python float that is  *)
(* the quotient of two small integers is the pair <<num, den>>; such       *)
(* quotients are correctly rounded, so two of them are equal or ordered as *)
(* floats exactly as the fractions are.                                    *)
(***************************************************************************)
EXTENDS Integers, Sequences, FiniteSets, TLC

VARIABLES
    pc,         \* position of the operation in progress
    data,       \* fnv1a_64: the bytes being hashed
    h,          \* fnv1a_64: the accumulator
    digest,     \* stable_hash_bytes: the rendered digest
    tokens1,    \* stable_hash_tokens: first token sequence
    tokens2,    \* stable_hash_tokens: second token sequence
    hashed,     \* stable_hash_tokens: <<joined1, digest1, joined2, digest2>>
    file1,      \* _calculate_similarity: first file record
    file2,      \* _calculate_similarity: second file record
    similarity, \* <<_calculate_similarity(file1, file2), _calculate_similarity(file2, file1)>>
    parsed_files,           \* the batch given to the detector
    config,     \* DuplicateDetector.config: min_lines, min_tokens, similarity_threshold
    raised,     \* "no", or the exception that left the operation in progress
    exact,      \* find_exact_duplicates(parsed_files)
    token,      \* find_token_duplicates(parsed_files)
    fuzzy,      \* find_fuzzy_duplicates(parsed_files)
    structural, \* find_structural_duplicates(parsed_files)
    css_dups,   \* find_css_duplicates(parsed_files)
    duplicates, \* what find_duplicates returns
    analyses,   \* what each call of Recator.analyze returned, oldest first
    refactor_call,      \* the last call of Recator.refactor_duplicates, <<>> before it
    refactoring_plan,   \* the plan of that call
    results,            \* what that call returned
    all_dups,           \* all_duplicates, the groups given to _merge_duplicate_groups
    dup_index,          \* the number of groups the loop of the merger has taken
    seen,               \* the keys seen so far
    merged,             \* the groups kept so far
    matcher_pc,         \* concurrent run: "ready" or "done" for each matcher
    finished,           \* concurrent run: the matchers in the order they finished
    cli_args,           \* cli.main: max_show, no_suppress_duplicates, interactive
    dup_list,           \* print_results: the groups printed, [1] first
    selection_ids,      \* cli.main: the IDs parse_selection returned
    selected_dups       \* cli.main: the groups given to refactor_duplicates

hashVars == <<data, h, digest>>
tokVars == <<tokens1, tokens2, hashed>>
simVars == <<file1, file2, similarity>>
cfgVars == <<parsed_files, config>>
outVars == <<raised, exact, token, fuzzy, structural, css_dups, duplicates>>
refVars == <<refactor_call, refactoring_plan, results>>
mergeVars == <<all_dups, dup_index, seen, merged>>
parVars == <<matcher_pc, finished>>
cliVars == <<cli_args, dup_list, selection_ids, selected_dups>>
detVars == <<cfgVars, outVars, analyses, refVars, mergeVars, parVars, cliVars>>
vars == <<pc, hashVars, tokVars, simVars, detVars>>

\* no hashing, no file comparison in progress
IdleHashing ==
    /\ data = <<>> /\ h = <<>> /\ digest = <<>>
    /\ tokens1 = <<>> /\ tokens2 = <<>> /\ hashed = <<>>
IdleSimilarity == file1 = <<>> /\ file2 = <<>> /\ similarity = <<>>
\* the five matchers of find_duplicates
Matchers == {"exact", "token", "fuzzy", "structural", "css"}

\* no detector constructed, nothing detected
NothingFound ==
    /\ raised = "no" /\ exact = <<>> /\ token = <<>> /\ fuzzy = <<>>
    /\ structural = <<>> /\ css_dups = <<>> /\ duplicates = <<>>
    /\ analyses = <<>>
    /\ refactor_call = <<>> /\ refactoring_plan = <<>> /\ results = <<>>
    /\ all_dups = <<>> /\ dup_index = 0 /\ seen = <<>> /\ merged = <<>>
    /\ matcher_pc = [m \in Matchers |-> "ready"] /\ finished = <<>>
    /\ cli_args = <<>> /\ dup_list = <<>> /\ selection_ids = <<>> /\ selected_dups = <<>>

IdleDetector ==
    /\ parsed_files = <<>> /\ config = <<>>
    /\ NothingFound

(***************************************************************************)
(* Bounds of the model.                                                    *)
(***************************************************************************)
MaxData == 3        \* longest byte sequence given to fnv1a_64
MaxTokens == 2      \* longest token sequence given to stable_hash_tokens
MaxSimLines == 4    \* most lines of a file given to _calculate_similarity
MaxSimTokens == 2   \* most tokens of a file given to _calculate_similarity

(***************************************************************************)
(* Sequence helpers.                                                       *)
(***************************************************************************)
RECURSIVE SeqsUpTo(_, _)
SeqsUpTo(S, n) ==
    IF n = 0 THEN {<<>>}
    ELSE LET shorter == SeqsUpTo(S, n - 1)
         IN shorter \cup {Append(s, x) : s \in {t \in shorter : Len(t) = n - 1}, x \in S}

Range(s) == {s[k] : k \in 1..Len(s)}

Max(a, b) == IF a >= b THEN a ELSE b
Min(a, b) == IF a <= b THEN a ELSE b

\* s[a:b] of Python (0-based, end exclusive, clipped; a negative index counts
\* from the end)
Slice(s, a, b) ==
    LET lo == IF a < 0 THEN (IF Len(s) + a < 0 THEN 0 ELSE Len(s) + a)
              ELSE IF a > Len(s) THEN Len(s) ELSE a
        hi == IF b < 0 THEN (IF Len(s) + b < 0 THEN 0 ELSE Len(s) + b)
              ELSE IF b > Len(s) THEN Len(s) ELSE b
    IN SubSeq(s, lo + 1, hi)

RECURSIVE JoinWith(_, _)
\* sep.join(parts)
JoinWith(sep, parts) ==
    IF Len(parts) = 0 THEN <<>>
    ELSE IF Len(parts) = 1 THEN parts[1]
    ELSE parts[1] \o sep \o JoinWith(sep, Tail(parts))

(***************************************************************************)
(* recator/hashing.py                                                      *)
(***************************************************************************)
\* 14695981039346656037 = 0xcbf2 9ce4 8422 2325, least significant limb first
FNV_64_OFFSET == <<8997, 33826, 40164, 52210>>
\* 1099511628211 = 0x0100 0000 01b3
FNV_64_PRIME == <<435, 0, 256>>

RECURSIVE XorBits(_, _, _)
XorBits(a, b, n) ==
    IF n = 0 THEN 0
    ELSE (((a % 2) + (b % 2)) % 2) + 2 * XorBits(a \div 2, b \div 2, n - 1)

\* h ^= b   (b is one byte: only the low byte of the lowest limb changes)
XorByte(acc, b) ==
    [acc EXCEPT ![1] = 256 * (acc[1] \div 256) + XorBits(acc[1] % 256, b, 8)]

RECURSIVE MulSmall(_, _, _)
\* acc * m + carry, for one limb m
MulSmall(acc, m, carry) ==
    IF Len(acc) = 0
    THEN IF carry = 0 THEN <<>> ELSE <<carry % 65536>> \o MulSmall(<<>>, m, carry \div 65536)
    ELSE LET p == acc[1] * m + carry
         IN <<p % 65536>> \o MulSmall(Tail(acc), m, p \div 65536)

RECURSIVE AddLimbs(_, _, _)
AddLimbs(a, b, carry) ==
    IF Len(a) = 0 /\ Len(b) = 0
    THEN IF carry = 0 THEN <<>> ELSE <<carry>>
    ELSE LET x == IF Len(a) = 0 THEN 0 ELSE a[1]
             y == IF Len(b) = 0 THEN 0 ELSE b[1]
             s == x + y + carry
         IN <<s % 65536>> \o AddLimbs(IF Len(a) = 0 THEN <<>> ELSE Tail(a),
                                      IF Len(b) = 0 THEN <<>> ELSE Tail(b),
                                      s \div 65536)

RECURSIVE MulLimbs(_, _)
\* a * b, schoolbook
MulLimbs(a, b) ==
    IF Len(b) = 0 THEN <<>>
    ELSE LET rest == MulLimbs(a, Tail(b))
             shifted == IF Len(rest) = 0 THEN <<>> ELSE <<0>> \o rest
         IN IF b[1] = 0 THEN shifted ELSE AddLimbs(MulSmall(a, b[1], 0), shifted, 0)

\* the mask left out: the product keeps all its limbs
MaskNone(x) == x

\* x & 0xFFFFFFFFFFFFFFFF
Mask64(x) == [k \in 1..4 |-> IF k <= Len(x) THEN x[k] ELSE 0]

\* one iteration of the loop of fnv1a_64
FnvStep(acc, b) == Mask64(MulLimbs(XorByte(acc, b), FNV_64_PRIME))

RECURSIVE FnvLoop(_, _)
\* the loop of fnv1a_64 from accumulator acc over bytes (the test on next only
\* makes the checker finish one iteration before it starts the following one)
FnvLoop(acc, bytes) ==
    IF Len(bytes) = 0 THEN acc
    ELSE LET next == FnvStep(acc, bytes[1])
         IN IF Len(next) = 0 THEN next ELSE FnvLoop(next, Tail(bytes))

fnv1a_64(bytes) == FnvLoop(FNV_64_OFFSET, bytes)

\* the character of one hexadecimal digit, lowercase: 0-9 are 48..57, a-f are 97..102
HexChar(d) == IF d < 10 THEN 48 + d ELSE 87 + d

RECURSIVE Nibbles(_)
\* the base-16 digits of a limb sequence, least significant first
Nibbles(x) ==
    IF Len(x) = 0 THEN <<>>
    ELSE <<x[1] % 16, (x[1] \div 16) % 16, (x[1] \div 256) % 16, x[1] \div 4096>>
             \o Nibbles(Tail(x))

RECURSIVE StripHighZeros(_)
StripHighZeros(ds) ==
    IF Len(ds) > 0 /\ ds[Len(ds)] = 0 THEN StripHighZeros(SubSeq(ds, 1, Len(ds) - 1))
    ELSE ds

\* f"{x:016x}": the digits of x, most significant first, zero-padded to 16 at least
Format016x(x) ==
    LET ds == StripHighZeros(Nibbles(x))
        n == Max(16, Len(ds))
    IN [k \in 1..n |-> HexChar(IF n + 1 - k <= Len(ds) THEN ds[n + 1 - k] ELSE 0)]

stable_hash_bytes(bytes) == Format016x(fnv1a_64(bytes))

\* text.encode("utf-8", errors="ignore"): the texts of the model are ASCII
stable_hash_text(text) == stable_hash_bytes(text)

\* plain concatenation of the tokens
TokenSepNone == <<>>

\* the unit separator "\x1f"
TokenSep == <<31>>

JoinTokens(tokens) == JoinWith(TokenSep, tokens)

stable_hash_tokens(tokens) == stable_hash_text(JoinTokens(tokens))

(***************************************************************************)
(* fnv1a_64 and stable_hash_bytes, one loop iteration at a time.           *)
(***************************************************************************)
\* 0x00, "a", "b", 0xff
HashBytes == {0, 97, 98, 255}

InitHash ==
    /\ pc = "fnv_loop"
    /\ data \in SeqsUpTo(HashBytes, MaxData)
    /\ h = <<FNV_64_OFFSET, 0>>          \* <<accumulator, bytes consumed>>
    /\ digest = <<>>
    /\ tokens1 = <<>> /\ tokens2 = <<>> /\ hashed = <<>>
    /\ IdleSimilarity /\ IdleDetector

FnvIterate ==
    /\ pc = "fnv_loop"
    /\ h[2] < Len(data)
    /\ h' = <<FnvStep(h[1], data[h[2] + 1]), h[2] + 1>>
    /\ UNCHANGED <<pc, data, digest, tokVars, simVars, detVars>>

FnvReturn ==
    /\ pc = "fnv_loop"
    /\ h[2] = Len(data)
    /\ digest' = Format016x(h[1])
    /\ pc' = "fnv_done"
    /\ UNCHANGED <<data, h, tokVars, simVars, detVars>>

NextHash == FnvIterate \/ FnvReturn

SpecHash == InitHash /\ [][NextHash]_vars

HexDigits == (48..57) \cup (97..102)

\* C3: the accumulator of fnv1a_64 starts at the offset basis and stays within
\* 0..2^64-1 after every iteration; the digest of the empty input is the offset
\* basis, the digest of "a" is the FNV-1a reference value af63dc4c8601ec8c (XOR
\* first, then multiply), and stable_hash_bytes renders exactly 16 lowercase
\* hexadecimal characters.
FnvAccumulatorIs64Bit ==
    pc \in {"fnv_loop", "fnv_done"} =>
        /\ Len(StripHighZeros(h[1])) <= 4
        /\ \A k \in 1..Len(h[1]) : h[1][k] \in 0..65535
        /\ h[2] = 0 => h[1] = FNV_64_OFFSET
        /\ h[2] = 1 /\ data[1] = 97 =>
               h[1] = <<60556, 34305, 56396, 44899>>
        /\ pc = "fnv_done" =>
               /\ Len(digest) = 16
               /\ \A k \in 1..Len(digest) : digest[k] \in HexDigits
               /\ digest = stable_hash_bytes(data)
               /\ data = <<>> =>
                      digest = <<99, 98, 102, 50, 57, 99, 101, 52,
                                 56, 52, 50, 50, 50, 51, 50, 53>>
               /\ data = <<97>> =>
                      digest = <<97, 102, 54, 51, 100, 99, 52, 99,
                                 56, 54, 48, 49, 101, 99, 56, 99>>

\* a digest has been rendered for an input of several bytes, one of them above 0x7f
FnvDigestRendered ==
    /\ pc = "fnv_done"
    /\ Len(data) >= 2
    /\ 255 \in Range(data)
    /\ Len(digest) = 16

(***************************************************************************)
(* stable_hash_tokens on two token sequences.                              *)
(***************************************************************************)
\* the tokens "", "a", "ab", "c", "bc"
HashTokens == {<<>>, <<97>>, <<97, 98>>, <<99>>, <<98, 99>>}

InitTokens ==
    /\ pc = "tok_start"
    /\ tokens1 \in SeqsUpTo(HashTokens, MaxTokens)
    /\ tokens2 \in SeqsUpTo(HashTokens, MaxTokens)
    /\ hashed = <<>>
    /\ data = <<>> /\ h = <<>> /\ digest = <<>>
    /\ IdleSimilarity /\ IdleDetector

HashTokenSequences ==
    /\ pc = "tok_start"
    /\ hashed' = <<JoinTokens(tokens1), stable_hash_tokens(tokens1),
                   JoinTokens(tokens2), stable_hash_tokens(tokens2)>>
    /\ pc' = "tok_done"
    /\ UNCHANGED <<tokens1, tokens2, hashVars, simVars, detVars>>

NextTokens == HashTokenSequences

SpecTokens == InitTokens /\ [][NextTokens]_vars

NoSeparatorInside(tokens) ==
    \A k \in 1..Len(tokens) : 31 \notin Range(tokens[k])

\* C4 as stated: two different token sequences whose tokens do not contain 0x1F
\* are never hashed from the same joined text.
DifferentTokensDifferentText ==
    (/\ pc = "tok_done"
     /\ tokens1 # tokens2
     /\ NoSeparatorInside(tokens1) /\ NoSeparatorInside(tokens2))
        => hashed[1] # hashed[3]

\* C4, amended: two different token sequences whose tokens do not contain 0x1F
\* are hashed from different joined texts, except the empty sequence and the
\* sequence of one empty token, which both join to the empty text; ["ab","c"] and
\* ["a","bc"] have different joined texts and different digests.
DifferentSplitsDifferentText ==
    (/\ pc = "tok_done"
     /\ tokens1 # tokens2
     /\ NoSeparatorInside(tokens1) /\ NoSeparatorInside(tokens2))
        => /\ {tokens1, tokens2} # {<<>>, << <<>> >>} => hashed[1] # hashed[3]
           /\ {tokens1, tokens2} = {<<>>, << <<>> >>} => hashed[1] = hashed[3]
           /\ (tokens1 = << <<97, 98>>, <<99>> >> /\ tokens2 = << <<97>>, <<98, 99>> >>)
                 => hashed[2] # hashed[4]

\* ["ab","c"] and ["a","bc"] have been hashed
SplitsHashed ==
    /\ pc = "tok_done"
    /\ tokens1 = << <<97, 98>>, <<99>> >>
    /\ tokens2 = << <<97>>, <<98, 99>> >>
    /\ hashed[1] = <<97, 98, 31, 99>>
    /\ hashed[3] = <<97, 31, 98, 99>>
    /\ hashed[2] # hashed[4]

(***************************************************************************)
(* recator/detector.py: similarity of two files.                           *)
(***************************************************************************)
RECURSIVE Gcd(_, _)
Gcd(a, b) == IF b = 0 THEN a ELSE Gcd(b, a % b)

\* the float n / d (d > 0), in lowest terms
Float(n, d) == LET g == Gcd(n, d) IN <<n \div g, d \div g>>

\* x > y: the comparison of a threshold test that leaves the boundary out
FloatGT(x, y) == x[1] * y[2] > y[1] * x[2]

\* x >= y for two floats
FloatGE(x, y) == x[1] * y[2] >= y[1] * x[2]

\* a Jaccard index that counts every occurrence of a token
TokenSimilarityOfOccurrences(t1, t2) ==
    LET common == Cardinality(Range(t1) \cap Range(t2))
    IN IF Len(t1) + Len(t2) = 0 THEN Float(0, 1)
       ELSE Float(common, Len(t1) + Len(t2) - common)

\* _token_similarity: Jaccard index of the two token sets
TokenSimilarity(t1, t2) ==
    LET set1 == Range(t1)
        set2 == Range(t2)
        intersection == set1 \cap set2
        union == set1 \cup set2
    IN IF set1 = {} /\ set2 = {} THEN Float(0, 1)
       ELSE IF union # {} THEN Float(Cardinality(intersection), Cardinality(union))
       ELSE Float(0, 1)

RECURSIVE MatchLen(_, _, _, _, _, _)
\* difflib find_longest_match: j2len, the length of the longest match of a and b
\* that ends at a[i], b[j] (0-based) and starts no earlier than alo, blo
MatchLen(a, b, i, j, alo, blo) ==
    IF i < alo \/ j < blo THEN 0
    ELSE IF a[i + 1] # b[j + 1] THEN 0
    ELSE 1 + MatchLen(a, b, i - 1, j - 1, alo, blo)

\* difflib SequenceMatcher.find_longest_match(alo, ahi, blo, bhi) without junk:
\* <<i, j, k>>, the longest matching block of a[alo:ahi] and b[blo:bhi]; of the
\* longest ones the one starting earliest in a and, of those, earliest in b
\* (the first (i, j), i outer and j inner, at which k exceeds the best so far)
FindLongestMatch(a, b, alo, ahi, blo, bhi) ==
    LET cells == {<<i, j>> \in (alo..(ahi - 1)) \X (blo..(bhi - 1)) : a[i + 1] = b[j + 1]}
        len(c) == MatchLen(a, b, c[1], c[2], alo, blo)
    IN IF cells = {} THEN <<alo, blo, 0>>
       ELSE LET bestsize == CHOOSE k \in {len(c) : c \in cells} :
                                \A c \in cells : len(c) <= k
                best == {c \in cells : len(c) = bestsize}
                first == CHOOSE c \in best :
                             \A o \in best : c[1] < o[1] \/ (c[1] = o[1] /\ c[2] <= o[2])
            IN <<first[1] - bestsize + 1, first[2] - bestsize + 1, bestsize>>

RECURSIVE MatchingTotal(_, _, _, _, _, _)
\* difflib SequenceMatcher.get_matching_blocks: the sum of the sizes of the
\* matching blocks, found by splitting at the longest match and recursing left
\* and right of it
MatchingTotal(a, b, alo, ahi, blo, bhi) ==
    LET x == FindLongestMatch(a, b, alo, ahi, blo, bhi)
        i == x[1]
        j == x[2]
        k == x[3]
    IN IF k = 0 THEN 0
       ELSE k + (IF alo < i /\ blo < j THEN MatchingTotal(a, b, alo, i, blo, j) ELSE 0)
              + (IF i + k < ahi /\ j + k < bhi
                 THEN MatchingTotal(a, b, i + k, ahi, j + k, bhi) ELSE 0)

\* _line_similarity: difflib.SequenceMatcher(None, lines1, lines2).ratio(),
\* 2.0 * matches / (len(a) + len(b)), and 1.0 for two empty sequences
LineSimilarity(lines1, lines2) ==
    LET length == Len(lines1) + Len(lines2)
    IN IF length = 0 THEN Float(1, 1)
       ELSE Float(2 * MatchingTotal(lines1, lines2, 0, Len(lines1), 0, Len(lines2)), length)

HasKey(rec, key) == key \in DOMAIN rec

\* _calculate_similarity
CalculateSimilarity(f1, f2) ==
    IF HasKey(f1, "tokens") /\ HasKey(f2, "tokens")
    THEN TokenSimilarity(f1.tokens, f2.tokens)
    ELSE LineSimilarity(f1.lines, f2.lines)

(***************************************************************************)
(* Text primitives of Python used by the detector.                         *)
(***************************************************************************)
\* str.strip() and the regex class \s
IsSpace(c) == c \in {9, 10, 11, 12, 13, 28, 29, 30, 31, 32}

\* the regex class \w on ASCII text
IsWord(c) == c \in (48..57) \cup (65..90) \cup (97..122) \cup {95}

RECURSIVE LStrip(_)
LStrip(text) ==
    IF Len(text) > 0 /\ IsSpace(text[1]) THEN LStrip(Tail(text)) ELSE text

RECURSIVE RStrip(_)
RStrip(text) ==
    IF Len(text) > 0 /\ IsSpace(text[Len(text)])
    THEN RStrip(SubSeq(text, 1, Len(text) - 1)) ELSE text

\* text.strip()
Strip(text) == LStrip(RStrip(text))

RECURSIVE CollapseSpace(_)
\* re.sub(r'\s+', ' ', text)
CollapseSpace(text) ==
    IF Len(text) = 0 THEN <<>>
    ELSE IF IsSpace(text[1]) THEN <<32>> \o CollapseSpace(LStrip(text))
    ELSE <<text[1]>> \o CollapseSpace(Tail(text))

RECURSIVE CountChar(_, _)
\* text.count(c)
CountChar(text, c) ==
    IF Len(text) = 0 THEN 0
    ELSE (IF text[1] = c THEN 1 ELSE 0) + CountChar(Tail(text), c)

RECURSIVE SplitLines(_)
\* content.splitlines() for text whose only line break is "\n"
SplitLines(content) ==
    IF Len(content) = 0 THEN <<>>
    ELSE LET nl == {k \in 1..Len(content) : content[k] = 10}
         IN IF nl = {} THEN <<content>>
            ELSE LET k == CHOOSE x \in nl : \A y \in nl : x <= y
                 IN <<SubSeq(content, 1, k - 1)>>
                        \o SplitLines(SubSeq(content, k + 1, Len(content)))

RECURSIVE FindAllWords(_)
\* re.findall(r'\w+', text)
FindAllWords(text) ==
    IF Len(text) = 0 THEN <<>>
    ELSE IF ~IsWord(text[1]) THEN FindAllWords(Tail(text))
    ELSE LET stop == {k \in 1..Len(text) : ~IsWord(text[k])}
             n == IF stop = {} THEN Len(text)
                  ELSE (CHOOSE x \in stop : \A y \in stop : x <= y) - 1
         IN <<SubSeq(text, 1, n)>> \o FindAllWords(SubSeq(text, n + 1, Len(text)))

RECURSIVE LexLess(_, _)
\* s < t for two strings
LexLess(s, t) ==
    IF Len(t) = 0 THEN FALSE
    ELSE IF Len(s) = 0 THEN TRUE
    ELSE IF s[1] # t[1] THEN s[1] < t[1]
    ELSE LexLess(Tail(s), Tail(t))

RECURSIVE SortStrings(_)
\* sorted(strings)
SortStrings(strings) ==
    IF Len(strings) = 0 THEN <<>>
    ELSE LET m == CHOOSE k \in 1..Len(strings) :
                      \A o \in 1..Len(strings) : ~LexLess(strings[o], strings[k])
         IN <<strings[m]>>
                \o SortStrings(SubSeq(strings, 1, m - 1) \o SubSeq(strings, m + 1, Len(strings)))

(***************************************************************************)
(* Grouping in a defaultdict(list).                                        *)
(***************************************************************************)
RECURSIVE FirstSeen(_)
\* the keys of a dict filled in this order: each key once, at its first insertion
FirstSeen(keys) ==
    IF Len(keys) = 0 THEN <<>>
    ELSE LET before == FirstSeen(SubSeq(keys, 1, Len(keys) - 1))
             last == keys[Len(keys)]
         IN IF last \in Range(before) THEN before ELSE Append(before, last)

\* groups[key].append(item) for each <<key, item>> in turn: <<key, items>> per key
GroupByKey(pairs) ==
    LET keys == FirstSeen([k \in 1..Len(pairs) |-> pairs[k][1]])
        Items(key) ==
            LET sel == SelectSeq(pairs, LAMBDA pr : pr[1] = key)
            IN [k \in 1..Len(sel) |-> sel[k][2]]
    IN [n \in 1..Len(keys) |-> <<keys[n], Items(keys[n])>>]

\* iteration in some other order than insertion, as a set of strings would give
\* under another string hash seed
DictItemsUnordered(d, seed) ==
    IF seed = 0 THEN d ELSE [k \in 1..Len(d) |-> d[Len(d) + 1 - k]]

\* dict.items(): insertion order, whatever the string hash seed of the process
DictItems(d, seed) == d

\* the element of a one-element set: TheOne({e(v) : v \in {x}}) is e(x) with x
\* computed once
TheOne(S) == CHOOSE v \in S : TRUE

RECURSIVE Flatten(_)
Flatten(seqs) == IF Len(seqs) = 0 THEN <<>> ELSE seqs[1] \o Flatten(Tail(seqs))

(***************************************************************************)
(* recator/detector.py: the exact matcher.                                 *)
(***************************************************************************)
\* a content hash that leaves the whitespace as it is
ComputeContentHashOfRawText(content) == stable_hash_text(content)

\* _compute_content_hash
ComputeContentHash(content) == stable_hash_text(CollapseSpace(Strip(content)))

\* the exact groups of find_exact_duplicates (lines 55-73): <<"ok", groups>>, or
\* <<"KeyError", <<>>>> when the first file of a group has no 'line_count'
ExactFileGroups(files, seed) ==
    LET hash_groups ==
            GroupByKey([k \in 1..Len(files) |->
                          <<ComputeContentHash(files[k].content), files[k]>>])
        dups == SelectSeq(DictItems(hash_groups, seed), LAMBDA g : Len(g[2]) > 1)
    IN IF \E n \in 1..Len(dups) : ~HasKey(dups[n][2][1], "line_count")
       THEN <<"KeyError", <<>>>>
       ELSE <<"ok",
              [n \in 1..Len(dups) |->
                 [type |-> "exact",
                  hash |-> dups[n][1],
                  files |-> [k \in 1..Len(dups[n][2]) |-> dups[n][2][k].path],
                  count |-> Len(dups[n][2]),
                  lines |-> dups[n][2][1].line_count,
                  confidence |-> Float(1, 1)]]>>

\* a density guard that also skips a window of which exactly half is non-blank
TooBlankAtHalf(block, min_lines) ==
    2 * Cardinality({k \in 1..Len(block) : Strip(block[k]) # <<>>}) <= min_lines

\* sum(1 for line in block if line.strip()) < self.min_lines * 0.5
TooBlank(block, min_lines) ==
    2 * Cardinality({k \in 1..Len(block) : Strip(block[k]) # <<>>}) < min_lines

\* a range that stops one short
PyRangeShort(n) == [k \in 1..Max(n - 1, 0) |-> k - 1]

\* range(n)
PyRange(n) == [k \in 1..Max(n, 0) |-> k - 1]

\* the windows one file adds to block_hashes (lines 86-105), as <<hash, entry>>
FileWindows(file_data, min_lines) ==
    LET lines == file_data.lines
        starts == SelectSeq(PyRange(Len(lines) - min_lines + 1),
                            LAMBDA i : ~TooBlank(Slice(lines, i, i + min_lines), min_lines))
    IN [n \in 1..Len(starts) |->
          LET block_text == JoinWith(<<10>>, Slice(lines, starts[n], starts[n] + min_lines))
          IN <<stable_hash_text(block_text),
               [file |-> file_data.path,
                start_line |-> starts[n] + 1,
                end_line |-> starts[n] + min_lines,
                content |-> block_text]>>]

\* _find_exact_block_duplicates
FindExactBlockDuplicates(files, min_lines, seed) ==
    LET block_hashes ==
            GroupByKey(Flatten([k \in 1..Len(files) |-> FileWindows(files[k], min_lines)]))
        dups == SelectSeq(DictItems(block_hashes, seed), LAMBDA g : Len(g[2]) > 1)
    IN [n \in 1..Len(dups) |->
          [type |-> "exact_block",
           hash |-> dups[n][1],
           blocks |-> dups[n][2],
           count |-> Len(dups[n][2]),
           lines |-> min_lines,
           confidence |-> Float(1, 1)]]

\* find_exact_duplicates
FindExactDuplicates(files, min_lines, seed) ==
    TheOne({IF whole[1] # "ok" THEN whole
            ELSE <<"ok", whole[2] \o FindExactBlockDuplicates(files, min_lines, seed)>> :
               whole \in {ExactFileGroups(files, seed)}})

(***************************************************************************)
(* recator/detector.py: the token-sequence matcher.                        *)
(***************************************************************************)
\* the windows one file adds to token_groups (lines 127-141), as <<hash, entry>>
FileTokenWindows(file_data, min_tokens) ==
    IF ~HasKey(file_data, "tokens") THEN <<>>
    ELSE LET tokens == file_data.tokens
             starts == PyRange(Len(tokens) - min_tokens + 1)
         IN [n \in 1..Len(starts) |->
               LET subseq == Slice(tokens, starts[n], starts[n] + min_tokens)
               IN <<stable_hash_tokens(subseq),
                    [file |-> file_data.path, tokens |-> subseq, position |-> starts[n]]>>]

\* a token matcher that reports its groups with confidence 1.0
FindTokenDuplicatesCertain(files, min_tokens, seed) ==
    LET token_groups ==
            GroupByKey(Flatten([k \in 1..Len(files) |-> FileTokenWindows(files[k], min_tokens)]))
        dups == SelectSeq(DictItems(token_groups, seed), LAMBDA g : Len(g[2]) > 1)
    IN [n \in 1..Len(dups) |->
          [type |-> "token_sequence",
           hash |-> dups[n][1],
           groups |-> dups[n][2],
           count |-> Len(dups[n][2]),
           token_count |-> min_tokens,
           confidence |-> Float(1, 1)]]

\* find_token_duplicates
FindTokenDuplicates(files, min_tokens, seed) ==
    LET token_groups ==
            GroupByKey(Flatten([k \in 1..Len(files) |-> FileTokenWindows(files[k], min_tokens)]))
        dups == SelectSeq(DictItems(token_groups, seed), LAMBDA g : Len(g[2]) > 1)
    IN [n \in 1..Len(dups) |->
          [type |-> "token_sequence",
           hash |-> dups[n][1],
           groups |-> dups[n][2],
           count |-> Len(dups[n][2]),
           token_count |-> min_tokens,
           confidence |-> Float(9, 10)]]

(***************************************************************************)
(* recator/detector.py: the fuzzy matcher.                                 *)
(***************************************************************************)
\* the pairs <<i, j>>, i < j, of 1..n in the order of the two nested loops
PairsInOrder(n) ==
    Flatten([i \in 1..n |-> [d \in 1..(n - i) |-> <<i, i + d>>]])

\* the file pairs of find_fuzzy_duplicates (lines 162-172)
FuzzyFilePairs(files, threshold) ==
    LET scored == [p \in 1..Len(PairsInOrder(Len(files))) |->
                     LET pr == PairsInOrder(Len(files))[p]
                     IN <<pr[1], pr[2], CalculateSimilarity(files[pr[1]], files[pr[2]])>>]
        kept == SelectSeq(scored, LAMBDA t : FloatGE(t[3], threshold))
    IN [n \in 1..Len(kept) |->
          [type |-> "fuzzy",
           files |-> <<files[kept[n][1]].path, files[kept[n][2]].path>>,
           similarity |-> kept[n][3],
           confidence |-> kept[n][3]]]

\* _get_block_tokens (blocks carry 'start_line' >= 1 and 'end_line')
GetBlockTokens(file_data, block) ==
    IF ~HasKey(file_data, "tokens") THEN <<>>
    ELSE FindAllWords(JoinWith(<<10>>,
             Slice(file_data.lines, block.start_line - 1, block.end_line)))

\* all_blocks of _find_similar_blocks (lines 186-193)
AllBlocks(files) ==
    Flatten([k \in 1..Len(files) |->
        IF ~HasKey(files[k], "blocks") THEN <<>>
        ELSE [b \in 1..Len(files[k].blocks) |->
                [file |-> files[k].path,
                 block |-> files[k].blocks[b],
                 tokens |-> GetBlockTokens(files[k], files[k].blocks[b])]]])

\* _find_similar_blocks
FindSimilarBlocks(files, threshold) ==
    LET all_blocks == AllBlocks(files)
        pairs == SelectSeq(PairsInOrder(Len(all_blocks)),
                     LAMBDA pr : /\ all_blocks[pr[1]].tokens # <<>>
                                 /\ all_blocks[pr[2]].tokens # <<>>
                                 /\ FloatGE(TokenSimilarity(all_blocks[pr[1]].tokens,
                                                            all_blocks[pr[2]].tokens),
                                            threshold))
    IN [n \in 1..Len(pairs) |->
          LET block1 == all_blocks[pairs[n][1]]
              block2 == all_blocks[pairs[n][2]]
              sim == TokenSimilarity(block1.tokens, block2.tokens)
          IN [type |-> "similar_block",
              blocks |-> <<[file |-> block1.file, name |-> block1.block.name],
                           [file |-> block2.file, name |-> block2.block.name]>>,
              similarity |-> sim,
              confidence |-> sim]]

\* find_fuzzy_duplicates
FindFuzzyDuplicates(files, threshold) ==
    FuzzyFilePairs(files, threshold) \o FindSimilarBlocks(files, threshold)

(***************************************************************************)
(* recator/detector.py: the structural matcher.                            *)
(***************************************************************************)
\* the value None of Python where a text may stand: no character has this code
None == <<-1>>

\* [a-z_][a-zA-Z0-9_]*
IsLowerIdentifier(run) == run[1] \in (97..122) \cup {95}
\* [A-Z][a-zA-Z0-9_]*
IsUpperIdentifier(run) == run[1] \in 65..90
\* \d+
IsNumber(run) == \A k \in 1..Len(run) : run[k] \in 48..57

RunMatches(pattern, run) ==
    CASE pattern = "lower" -> IsLowerIdentifier(run)
      [] pattern = "upper" -> IsUpperIdentifier(run)
      [] pattern = "number" -> IsNumber(run)

RECURSIVE SubWordRuns(_, _, _)
\* re.sub(r'\b<pattern>\b', repl, text) for a pattern that matches whole runs of
\* word characters only: each maximal run of word characters that matches is
\* replaced, every other character is kept
SubWordRuns(text, pattern, repl) ==
    IF Len(text) = 0 THEN <<>>
    ELSE IF ~IsWord(text[1]) THEN <<text[1]>> \o SubWordRuns(Tail(text), pattern, repl)
    ELSE LET stop == {k \in 1..Len(text) : ~IsWord(text[k])}
             n == IF stop = {} THEN Len(text)
                  ELSE (CHOOSE x \in stop : \A y \in stop : x <= y) - 1
             run == SubSeq(text, 1, n)
         IN (IF RunMatches(pattern, run) THEN repl ELSE run)
                \o SubWordRuns(SubSeq(text, n + 1, Len(text)), pattern, repl)

RECURSIVE SubQuoted(_, _, _)
\* re.sub(q + '[^' + q + ']*' + q, repl, text) for a quote character q
SubQuoted(text, q, repl) ==
    IF Len(text) = 0 THEN <<>>
    ELSE IF text[1] # q THEN <<text[1]>> \o SubQuoted(Tail(text), q, repl)
    ELSE LET close == {k \in 2..Len(text) : text[k] = q}
         IN IF close = {} THEN text
            ELSE LET k == CHOOSE x \in close : \A y \in close : x <= y
                 IN repl \o SubQuoted(SubSeq(text, k + 1, Len(text)), q, repl)

\* _normalize_block without the test of line 266: a block without a body gets
\* the signature of the text "None"
NormalizeBlockOfAnyBody(block) ==
    LET body == IF ~HasKey(block, "body") THEN <<78, 111, 110, 101>>
                ELSE IF block.body = None \/ block.body = <<>> THEN <<78, 111, 110, 101>>
                ELSE block.body
        var == SubWordRuns(body, "lower", <<86, 65, 82>>)
        func == SubWordRuns(var, "upper", <<70, 85, 78, 67>>)
        num == SubWordRuns(func, "number", <<78, 85, 77>>)
        dq == SubQuoted(num, 34, <<83, 84, 82>>)
    IN SubQuoted(dq, 39, <<83, 84, 82>>)

\* _normalize_block
NormalizeBlock(block) ==
    IF ~HasKey(block, "body") THEN <<>>
    ELSE IF block.body = None \/ block.body = <<>> THEN <<>>
    ELSE LET var == SubWordRuns(block.body, "lower", <<86, 65, 82>>)
             func == SubWordRuns(var, "upper", <<70, 85, 78, 67>>)
             num == SubWordRuns(func, "number", <<78, 85, 77>>)
             dq == SubQuoted(num, 34, <<83, 84, 82>>)
         IN SubQuoted(dq, 39, <<83, 84, 82>>)

\* the blocks of a file, other_file.get('blocks', [])
BlocksOf(file_data) == IF HasKey(file_data, "blocks") THEN file_data.blocks ELSE <<>>

\* the matches of find_structural_duplicates (lines 237-260), in loop order
StructuralMatches(files) ==
    Flatten([f \in 1..Len(files) |->
      Flatten([b \in 1..Len(BlocksOf(files[f])) |->
        LET block == files[f].blocks[b]
            normalized == NormalizeBlock(block)
        IN IF normalized = <<>> THEN <<>>
           ELSE Flatten([o \in 1..Len(files) |->
                  IF files[o] = files[f] THEN <<>>
                  ELSE LET others == SelectSeq(BlocksOf(files[o]),
                                         LAMBDA ob : NormalizeBlock(ob) = normalized)
                       IN [n \in 1..Len(others) |->
                             [type |-> "structural",
                              blocks |-> <<[file |-> files[f].path, block |-> block.name],
                                           [file |-> files[o].path, block |-> others[n].name]>>,
                              confidence |-> Float(85, 100)]]])])])

\* str(b) of a member {'file': ..., 'block': ...}: the strings of two members
\* compare as their files and then their names do (paths and names of the model
\* hold no quote character)
MemberLess(x, y) ==
    \/ LexLess(x.file, y.file)
    \/ x.file = y.file /\ LexLess(x.block, y.block)

\* the key of _deduplicate_results: str(sorted(str(b) for b in blocks))
DedupKey(dup) ==
    IF Len(dup.blocks) = 2 /\ MemberLess(dup.blocks[2], dup.blocks[1])
    THEN <<dup.blocks[2], dup.blocks[1]>>
    ELSE dup.blocks

RECURSIVE KeepFirstByKey(_, _)
\* the loop shared by _deduplicate_results and _merge_duplicate_groups: the group
\* dups[k], of key keys[k], is kept iff its key was not seen before
KeepFirstByKey(dups, keys) ==
    IF Len(dups) = 0 THEN <<>>
    ELSE LET n == Len(dups)
             kept == KeepFirstByKey(SubSeq(dups, 1, n - 1), SubSeq(keys, 1, n - 1))
         IN IF \E k \in 1..(n - 1) : keys[k] = keys[n]
            THEN kept ELSE Append(kept, dups[n])

\* _deduplicate_results
DeduplicateResults(dups) ==
    KeepFirstByKey(dups, [k \in 1..Len(dups) |-> DedupKey(dups[k])])

\* find_structural_duplicates
FindStructuralDuplicates(files) == DeduplicateResults(StructuralMatches(files))

(***************************************************************************)
(* recator/detector.py: the stylesheet matcher.                            *)
(***************************************************************************)
\* c.lower() for one ASCII character (re.IGNORECASE)
LowerChar(c) == IF c \in 65..90 THEN c + 32 ELSE c

\* text[p..] starts with word (1-based p), letters compared without case
StartsWithAt(text, p, word) ==
    /\ p + Len(word) - 1 <= Len(text)
    /\ \A k \in 1..Len(word) : LowerChar(text[p + k - 1]) = word[k]

\* the least element of a non-empty set of integers
Least(S) == CHOOSE x \in S : \A y \in S : x <= y

RECURSIVE StyleElements(_, _)
\* re.finditer(r'<style[^>]*>(.*?)</style>', content, DOTALL | IGNORECASE) from
\* position p on: <<start, inner>> per match, start the 0-based m.start(1)
StyleElements(content, p) ==
    LET opens == {k \in p..Len(content) :
                    /\ StartsWithAt(content, k, <<60, 115, 116, 121, 108, 101>>)
                    /\ \E q \in (k + 6)..Len(content) :
                          /\ content[q] = 62
                          /\ \A x \in (k + 6)..(q - 1) : content[x] # 62
                          /\ \E r \in (q + 1)..Len(content) :
                                StartsWithAt(content, r, <<60, 47, 115, 116, 121, 108, 101, 62>>)}
    IN IF opens = {} THEN <<>>
       ELSE LET k == Least(opens)
                q == Least({x \in (k + 6)..Len(content) : content[x] = 62})
                r == Least({x \in (q + 1)..Len(content) :
                              StartsWithAt(content, x, <<60, 47, 115, 116, 121, 108, 101, 62>>)})
            IN <<<<q, SubSeq(content, q + 1, r - 1)>>>> \o StyleElements(content, r + 8)

RECURSIVE TemplateLiterals(_, _)
\* re.finditer(r'(?:css\s*|styled\.[a-zA-Z_]\w*\s*)?`([^`]*)`', content, DOTALL)
\* from position p on: <<start, inner>> per match.  The optional prefix holds no
\* backtick, so the matches pair the backticks in order, two by two
TemplateLiterals(content, p) ==
    LET ticks == {k \in p..Len(content) : content[k] = 96}
    IN IF ticks = {} THEN <<>>
       ELSE LET k == Least(ticks)
                closes == {x \in (k + 1)..Len(content) : content[x] = 96}
            IN IF closes = {} THEN <<>>
               ELSE LET r == Least(closes)
                    IN <<<<k, SubSeq(content, k + 1, r - 1)>>>>
                           \o TemplateLiterals(content, r + 1)

\* re.search(r':\s*[^;\n]+;?', inner) and ('{' in inner and '}' in inner)
LooksLikeCss(inner) ==
    /\ \E i \in 1..Len(inner) :
          /\ inner[i] = 58
          /\ \E j \in (i + 1)..Len(inner) :
                /\ \A x \in (i + 1)..(j - 1) : IsSpace(inner[x])
                /\ inner[j] \notin {59, 10}
    /\ 123 \in Range(inner)
    /\ 125 \in Range(inner)

\* the segment of a regex match, lines 378-381 and 389-391
MatchSegment(content, m) ==
    LET start_line == CountChar(SubSeq(content, 1, m[1]), 10) + 1
    IN [start_line |-> start_line,
        end_line |-> start_line + CountChar(m[2], 10),
        content |-> m[2]]

\* file_data.get(key, '') for a string-valued field
GetOrEmpty(file_data, key) == IF HasKey(file_data, key) THEN file_data[key] ELSE ""

\* _extract_css_segments (extensions of the model are lowercase already)
ExtractCssSegments(file_data) ==
    LET content == file_data.content
        ext == GetOrEmpty(file_data, "extension")
        language == GetOrEmpty(file_data, "language")
        html == IF ext \in {".html", ".htm"} \/ language = "html"
                THEN LET ms == StyleElements(content, 1)
                     IN [n \in 1..Len(ms) |-> MatchSegment(content, ms[n])]
                ELSE <<>>
        js == IF language = "javascript" \/ ext \in {".js", ".jsx", ".ts", ".tsx"}
              THEN LET ms == SelectSeq(TemplateLiterals(content, 1),
                                       LAMBDA m : LooksLikeCss(m[2]))
                   IN [n \in 1..Len(ms) |-> MatchSegment(content, ms[n])]
              ELSE <<>>
    IN IF ext \in {".css", ".scss", ".sass", ".less", ".styl"}
       THEN <<[start_line |-> 1,
               end_line |-> Max(Len(SplitLines(content)), 1),
               content |-> content]>>
       ELSE html \o js

RECURSIVE StripComments(_)
\* re.sub(r'/\*.*?\*/', '', css, flags=re.DOTALL)
StripComments(css) ==
    IF Len(css) < 2 THEN css
    ELSE IF css[1] = 47 /\ css[2] = 42
    THEN LET close == {k \in 3..(Len(css) - 1) : css[k] = 42 /\ css[k + 1] = 47}
         IN IF close = {} THEN css
            ELSE StripComments(SubSeq(css, Least(close) + 2, Len(css)))
    ELSE <<css[1]>> \o StripComments(Tail(css))

\* the characters of the class [:{};,{}]
IsCssPunct(c) == c \in {58, 123, 125, 59, 44}

RECURSIVE TightenPunct(_)
\* re.sub(r'\s*([:{};,{}])\s*', r'\1', css)
TightenPunct(css) ==
    IF Len(css) = 0 THEN <<>>
    ELSE LET rest == LStrip(css)
         IN IF Len(rest) > 0 /\ IsCssPunct(rest[1])
            THEN <<rest[1]>> \o TightenPunct(LStrip(Tail(rest)))
            ELSE <<css[1]>> \o TightenPunct(Tail(css))

\* _normalize_css_text
NormalizeCssText(css) == TightenPunct(CollapseSpace(Strip(StripComments(css))))

\* the segments one file adds to groups (lines 328-345), as <<hash, entry>>
FileCssEntries(file_data, min_lines) ==
    LET kept == SelectSeq(ExtractCssSegments(file_data),
                    LAMBDA seg : /\ seg.content # <<>>
                                 /\ CountChar(seg.content, 10) + 1 >= min_lines
                                 /\ Strip(NormalizeCssText(seg.content)) # <<>>)
    IN [n \in 1..Len(kept) |->
          <<stable_hash_text(NormalizeCssText(kept[n].content)),
            [file |-> file_data.path,
             start_line |-> kept[n].start_line,
             end_line |-> kept[n].end_line,
             content |-> Strip(kept[n].content)]>>]

\* find_css_duplicates
FindCssDuplicates(files, min_lines, seed) ==
    LET groups == GroupByKey(Flatten([k \in 1..Len(files) |->
                                        FileCssEntries(files[k], min_lines)]))
        dups == SelectSeq(DictItems(groups, seed), LAMBDA g : Len(g[2]) > 1)
    IN [n \in 1..Len(dups) |->
          [type |-> "css_block",
           hash |-> dups[n][1],
           blocks |-> dups[n][2],
           count |-> Len(dups[n][2]),
           lines |-> Max(1, dups[n][2][1].end_line - dups[n][2][1].start_line + 1),
           confidence |-> Float(1, 1)]]

(***************************************************************************)
(* recator/detector.py: the result merger and find_duplicates.             *)
(***************************************************************************)
\* a key that tells the types of the groups apart
MergeKeyOfType(dup) ==
    IF HasKey(dup, "files") THEN [kind |-> dup.type, of |-> SortStrings(dup.files)]
    ELSE IF HasKey(dup, "blocks") THEN [kind |-> dup.type, of |-> dup.blocks]
    ELSE [kind |-> "str", of |-> dup]

\* the key of _merge_duplicate_groups (lines 417-422).  tuple(str(b) for b in
\* blocks) is equal for two groups iff their members are equal one by one
MergeKey(dup) ==
    IF HasKey(dup, "files") THEN [kind |-> "files", of |-> SortStrings(dup.files)]
    ELSE IF HasKey(dup, "blocks") THEN [kind |-> "blocks", of |-> dup.blocks]
    ELSE [kind |-> "str", of |-> dup]

KeysEqual(x, y) == x.kind = y.kind /\ x.of = y.of

RECURSIVE MergeLoop(_, _)
\* the loop of _merge_duplicate_groups over all_duplicates from the state
\* [seen, merged]
MergeLoop(all_duplicates, st) ==
    IF Len(all_duplicates) = 0 THEN st
    ELSE LET dup == all_duplicates[1]
             key == MergeKey(dup)
         IN MergeLoop(Tail(all_duplicates),
                IF \E k \in 1..Len(st.seen) : KeysEqual(st.seen[k], key)
                THEN st
                ELSE [seen |-> Append(st.seen, key), merged |-> Append(st.merged, dup)])

\* _merge_duplicate_groups
MergeDuplicateGroups(all_duplicates) ==
    MergeLoop(all_duplicates, [seen |-> <<>>, merged |-> <<>>]).merged

\* the locals of find_duplicates when it returns, or when a matcher raises:
\* what was not computed is the empty list
FindDuplicates(files, min_lines, min_tokens, threshold, seed) ==
    TheOne({
       IF e[1] # "ok"
       THEN [raised |-> e[1], exact |-> <<>>, token |-> <<>>, fuzzy |-> <<>>,
             structural |-> <<>>, css_dups |-> <<>>, duplicates |-> <<>>]
       ELSE LET t == FindTokenDuplicates(files, min_tokens, seed)
                f == FindFuzzyDuplicates(files, threshold)
                st == FindStructuralDuplicates(files)
                c == FindCssDuplicates(files, min_lines, seed)
            IN [raised |-> "no", exact |-> e[2], token |-> t, fuzzy |-> f,
                structural |-> st, css_dups |-> c,
                duplicates |-> MergeDuplicateGroups(e[2] \o t \o f \o st \o c)] :
          e \in {FindExactDuplicates(files, min_lines, seed)}})

(***************************************************************************)
(* _calculate_similarity on two file records, in both orders.              *)
(***************************************************************************)
\* the lines and the tokens "x" and "y"
SimWords == {<<120>>, <<121>>}

\* file records without a token stream, and file records with one (their lines
\* are then not read)
SimFilesNoTokens(p) ==
    {[path |-> p, lines |-> ls] : ls \in SeqsUpTo(SimWords, MaxSimLines)}
SimFilesTokens(p) ==
    {[path |-> p, lines |-> ls, tokens |-> ts] :
        ls \in {<<>>, << <<120>> >>}, ts \in SeqsUpTo(SimWords, MaxSimTokens)}

InitSim ==
    /\ pc = "sim_start"
    /\ \/ /\ file1 \in SimFilesNoTokens("a")
          /\ file2 \in SimFilesNoTokens("b")
       \/ /\ file1 \in SimFilesTokens("a")
          /\ file2 \in SimFilesTokens("b")
       \/ /\ file1 \in SimFilesTokens("a")
          /\ file2 \in {f \in SimFilesNoTokens("b") : Len(f.lines) <= 1}
       \/ /\ file1 \in {f \in SimFilesNoTokens("a") : Len(f.lines) <= 1}
          /\ file2 \in SimFilesTokens("b")
    /\ similarity = <<>>
    /\ IdleHashing /\ IdleDetector

CalculateBothWays ==
    /\ pc = "sim_start"
    /\ similarity' = <<CalculateSimilarity(file1, file2), CalculateSimilarity(file2, file1)>>
    /\ pc' = "sim_done"
    /\ UNCHANGED <<file1, file2, hashVars, tokVars, detVars>>

NextSim == CalculateBothWays

SpecSim == InitSim /\ [][NextSim]_vars

\* C5: file similarity is symmetric, _calculate_similarity(A,B) equals
\* _calculate_similarity(B,A), in the token-set branch and in the line-sequence
\* fallback.
SimilaritySymmetric ==
    pc = "sim_done" => similarity[1] = similarity[2]

\* a file record whose token sequence is absent or empty
NoTokenSequence(f) == ~HasKey(f, "tokens") \/ f.tokens = <<>>

\* C11: when either file of a pair has an empty token sequence or no 'tokens'
\* field, _calculate_similarity returns the line-sequence ratio of the two
\* files' lines and not the token-set Jaccard score.
EmptyTokensFallBackToLines ==
    (pc = "sim_done" /\ (NoTokenSequence(file1) \/ NoTokenSequence(file2)))
        => similarity[1] = LineSimilarity(file1.lines, file2.lines)

\* both files of the pair have a token stream: the score is _token_similarity
BothHaveTokenStreams == HasKey(file1, "tokens") /\ HasKey(file2, "tokens")

\* the token sets of the two files
TokenSet1 == Range(file1.tokens)
TokenSet2 == Range(file2.tokens)

\* C25: _token_similarity is the Jaccard index of the two token sets,
\* |intersection| / |union|, and 0.0 when both sets are empty; it lies in
\* [0, 1], is 1.0 exactly when the sets are equal and non-empty, is 0.0 exactly
\* when they are disjoint or both empty, and does not depend on the order or the
\* multiplicity of the tokens.
TokenSimilarityIsJaccard ==
    (pc = "sim_done" /\ BothHaveTokenStreams) =>
        /\ similarity[1][2] > 0
        /\ similarity[1][1] >= 0 /\ similarity[1][1] <= similarity[1][2]
        /\ IF TokenSet1 \cup TokenSet2 = {} THEN similarity[1] = <<0, 1>>
           ELSE similarity[1][1] * Cardinality(TokenSet1 \cup TokenSet2)
                   = similarity[1][2] * Cardinality(TokenSet1 \cap TokenSet2)
        /\ similarity[1] = <<1, 1>> <=> (TokenSet1 = TokenSet2 /\ TokenSet1 # {})
        /\ similarity[1][1] = 0 <=> TokenSet1 \cap TokenSet2 = {}
        /\ \A t1, t2 \in SeqsUpTo(SimWords, MaxSimTokens + 1) :
              (Range(t1) = TokenSet1 /\ Range(t2) = TokenSet2)
                  => TokenSimilarity(t1, t2) = similarity[1]

\* token streams that differ in order or multiplicity and score 1.0
SameTokenSetScoresOne ==
    /\ pc = "sim_done"
    /\ BothHaveTokenStreams
    /\ Len(file1.tokens) = Len(file2.tokens)
    /\ file1.tokens # file2.tokens
    /\ similarity[1] = <<1, 1>>

(***************************************************************************)
(* The records of a batch: recator/scanner.py reads a file, and            *)
(* recator/analyzer.py adds its token stream and its blocks.               *)
(***************************************************************************)
\* CodeScanner._get_file_info (the fields the detector reads)
FileInfo(path, extension, language, content) ==
    [path |-> path, extension |-> extension, language |-> language,
     content |-> content, lines |-> SplitLines(content),
     line_count |-> Len(SplitLines(content))]

\* CodeAnalyzer.parse_files: the record of the scanner with 'tokens' and 'blocks'
ParsedFile(file_info, tokens, blocks) ==
    [tokens |-> tokens, blocks |-> blocks] @@ file_info

\* a record that lacks the fields of the set keys
Without(rec, keys) == [k \in (DOMAIN rec) \ keys |-> rec[k]]

\* the path of the k-th file of a batch: "a", "b", "c", ...
PathOf(k) == <<96 + k>>

\* a parsed file from its shape: content, tokens, blocks and the fields it lacks
FileOfShape(path, shape) ==
    Without(ParsedFile(FileInfo(path, shape.extension, shape.language, shape.content),
                       shape.tokens, shape.blocks),
            shape.lacks)

\* the batches of 1 to n files whose k-th file has path PathOf(k) and a shape of
\* the set shapes
Batches(shapes, lo, hi) ==
    UNION {{[k \in 1..n |-> FileOfShape(PathOf(k), sh[k])] : sh \in [1..n -> shapes]} :
              n \in lo..hi}

\* a Python source file
PyShape(content, tokens, blocks, lacks) ==
    [extension |-> ".py", language |-> "python", content |-> content,
     tokens |-> tokens, blocks |-> blocks, lacks |-> lacks]

\* a block of the analyzer
Block(name, start_line, end_line, body) ==
    [name |-> name, start_line |-> start_line, end_line |-> end_line, body |-> body]

(***************************************************************************)
(* find_fuzzy_duplicates on a batch.                                       *)
(***************************************************************************)
MaxFuzzyFiles == 3  \* most files of a batch given to find_fuzzy_duplicates

\* files "x\ny", "x" and "y\nz" with their words as tokens and their lines as
\* blocks; "x\ny" and "x" without a token stream; a blank file with a block
FuzzyShapes ==
    {PyShape(<<120, 10, 121>>, << <<120>>, <<121>> >>,
             <<Block(<<102>>, 1, 2, None)>>, {}),
     PyShape(<<120>>, << <<120>> >>, <<Block(<<102>>, 1, 1, None)>>, {}),
     PyShape(<<121, 10, 122>>, << <<121>>, <<122>> >>,
             <<Block(<<103>>, 1, 1, None), Block(<<104>>, 2, 2, None)>>, {}),
     PyShape(<<120, 10, 121>>, <<>>, <<Block(<<102>>, 1, 2, None)>>, {"tokens"}),
     PyShape(<<120>>, <<>>, <<>>, {"tokens", "blocks"}),
     PyShape(<<32>>, <<>>, <<Block(<<102>>, 1, 1, None)>>, {})}

\* 0.0, 0.5, the default 0.85, and 1.0
FuzzyThresholds == {<<0, 1>>, <<1, 2>>, <<17, 20>>, <<1, 1>>}

InitFuzzy ==
    /\ pc = "fuzzy_start"
    /\ parsed_files \in Batches(FuzzyShapes, 2, MaxFuzzyFiles)
    /\ \E t \in FuzzyThresholds :
          config = [min_lines |-> 4, min_tokens |-> 30, similarity_threshold |-> t]
    /\ NothingFound
    /\ IdleHashing /\ IdleSimilarity

\* fuzzy = self.find_fuzzy_duplicates(parsed_files)
CallFindFuzzyDuplicates ==
    /\ pc = "fuzzy_start"
    /\ fuzzy' = FindFuzzyDuplicates(parsed_files, config.similarity_threshold)
    /\ pc' = "fuzzy_done"
    /\ UNCHANGED <<hashVars, tokVars, simVars, cfgVars, refVars, parVars, cliVars, mergeVars,
                   raised, exact, token, structural, css_dups, duplicates, analyses>>

NextFuzzy == CallFindFuzzyDuplicates

SpecFuzzy == InitFuzzy /\ [][NextFuzzy]_vars

\* x >= y for two quotients <<num, den>>
AtLeast(x, y) == x[1] * y[2] >= y[1] * x[2]

\* the pairs of all_blocks that _find_similar_blocks may visit
BlockPairs == {pr \in (1..Len(AllBlocks(parsed_files))) \X (1..Len(AllBlocks(parsed_files))) :
                  pr[1] < pr[2]}

\* how a similar_block group names the pair pr of all_blocks
BlockPairEntries(pr) ==
    LET all_blocks == AllBlocks(parsed_files)
    IN <<[file |-> all_blocks[pr[1]].file, name |-> all_blocks[pr[1]].block.name],
         [file |-> all_blocks[pr[2]].file, name |-> all_blocks[pr[2]].block.name]>>

BlockPairSimilarity(pr) ==
    TokenSimilarity(AllBlocks(parsed_files)[pr[1]].tokens,
                    AllBlocks(parsed_files)[pr[2]].tokens)

\* both blocks of the pair have tokens
BothHaveTokens(pr) ==
    /\ AllBlocks(parsed_files)[pr[1]].tokens # <<>>
    /\ AllBlocks(parsed_files)[pr[2]].tokens # <<>>

\* the fuzzy groups of the files i < j, and the similar_block groups named entries
FuzzyGroupsOf(i, j) ==
    {k \in 1..Len(fuzzy) :
        /\ fuzzy[k].type = "fuzzy"
        /\ fuzzy[k].files = <<parsed_files[i].path, parsed_files[j].path>>}
SimilarBlockGroupsOf(entries) ==
    {k \in 1..Len(fuzzy) : fuzzy[k].type = "similar_block" /\ fuzzy[k].blocks = entries}

\* one fuzzy group per pair of files i < j at or above the threshold, none below
FilePairRule ==
    /\ \A i, j \in 1..Len(parsed_files) :
          i < j =>
            LET sim == CalculateSimilarity(parsed_files[i], parsed_files[j])
            IN /\ Cardinality(FuzzyGroupsOf(i, j)) =
                     IF AtLeast(sim, config.similarity_threshold) THEN 1 ELSE 0
               /\ \A k \in FuzzyGroupsOf(i, j) :
                     fuzzy[k].similarity = sim /\ fuzzy[k].confidence = sim
    /\ \A k \in 1..Len(fuzzy) :
          fuzzy[k].type = "fuzzy" =>
            \E i, j \in 1..Len(parsed_files) : i < j /\ k \in FuzzyGroupsOf(i, j)

\* one similar_block group per pair of blocks of the set pairs at or above the
\* threshold, none for any other pair
BlockPairRule(pairs) ==
    LET hits(entries) ==
            {pr \in pairs : /\ BlockPairEntries(pr) = entries
                            /\ AtLeast(BlockPairSimilarity(pr), config.similarity_threshold)}
    IN /\ \A pr \in BlockPairs :
             /\ Cardinality(SimilarBlockGroupsOf(BlockPairEntries(pr)))
                    = Cardinality(hits(BlockPairEntries(pr)))
             /\ \A k \in SimilarBlockGroupsOf(BlockPairEntries(pr)) :
                   /\ fuzzy[k].similarity = fuzzy[k].confidence
                   /\ \E hit \in hits(BlockPairEntries(pr)) :
                         fuzzy[k].similarity = BlockPairSimilarity(hit)
       /\ \A k \in 1..Len(fuzzy) :
             fuzzy[k].type = "similar_block" =>
               \E pr \in BlockPairs : fuzzy[k].blocks = BlockPairEntries(pr)

SimilarBlocksOfDifferentFiles ==
    pc = "fuzzy_done" =>
        \A k \in 1..Len(fuzzy) :
            fuzzy[k].type = "similar_block" =>
                fuzzy[k].blocks[1].file # fuzzy[k].blocks[2].file

(***************************************************************************)
(* find_structural_duplicates on a batch.                                  *)
(***************************************************************************)
MaxStructFiles == 2 \* most files of a batch given to find_structural_duplicates

\* a file of blocks with the given bodies, one per line; the blocks are named
\* "f1", "f2", ...
StructShape(bodies) ==
    PyShape(JoinWith(<<10>>, [k \in 1..Len(bodies) |->
                                 IF bodies[k] = None THEN <<>> ELSE bodies[k]]),
            <<>>,
            [k \in 1..Len(bodies) |-> Block(<<102, 48 + k>>, k, k, bodies[k])],
            {})

StructShapes ==
    {
     \* if x > 10: return y
     StructShape(<<<<105, 102, 32, 120, 32, 62, 32, 49, 48, 58, 32, 114, 101, 116, 117, 114, 110, 32, 121>>>>),
     \* if price > 10: return total
     StructShape(<<<<105, 102, 32, 112, 114, 105, 99, 101, 32, 62, 32, 49, 48, 58, 32, 114, 101, 116, 117, 114, 110, 32, 116, 111, 116, 97, 108>>>>),
     \* if n > 7: return m
     StructShape(<<<<105, 102, 32, 110, 32, 62, 32, 55, 58, 32, 114, 101, 116, 117, 114, 110, 32, 109>>>>),
     \* f('a', 'a')
     StructShape(<<<<102, 40, 39, 97, 39, 44, 32, 39, 97, 39, 41>>>>),
     \* f('"', '"')
     StructShape(<<<<102, 40, 39, 34, 39, 44, 32, 39, 34, 39, 41>>>>),
     \* g('bc', 'd')
     StructShape(<<<<103, 40, 39, 98, 99, 39, 44, 32, 39, 100, 39, 41>>>>),
     \* x = 1
     StructShape(<<<<120, 32, 61, 32, 49>>>>),
     \* two blocks in one file: x = 1 and f('a', 'a')
     StructShape(<<<<120, 32, 61, 32, 49>>, <<102, 40, 39, 97, 39, 44, 32, 39, 97, 39, 41>>>>),
     \* two blocks named run in one file (methods of two classes): x = 1 and y = 2
     PyShape(<<120, 32, 61, 32, 49, 10, 121, 32, 61, 32, 50>>, <<>>,
             <<Block(<<114, 117, 110>>, 1, 1, <<120, 32, 61, 32, 49>>),
               Block(<<114, 117, 110>>, 2, 2, <<121, 32, 61, 32, 50>>)>>,
             {}),
     \* a block x = 1 and a block whose body is None
     StructShape(<<<<120, 32, 61, 32, 49>>, None>>),
     \* a block whose body is the empty text
     StructShape(<<<<>>>>),
     \* a block without the key 'body'
     PyShape(<<120>>, <<>>, <<[name |-> <<102, 49>>, start_line |-> 1, end_line |-> 1]>>, {}),
     \* a block without a body
     StructShape(<<None>>)}

InitStructural ==
    /\ pc = "structural_start"
    /\ parsed_files \in Batches(StructShapes, 1, MaxStructFiles)
    /\ config = [min_lines |-> 4, min_tokens |-> 30, similarity_threshold |-> <<17, 20>>]
    /\ NothingFound
    /\ IdleHashing /\ IdleSimilarity

\* structural = self.find_structural_duplicates(parsed_files)
CallFindStructuralDuplicates ==
    /\ pc = "structural_start"
    /\ structural' = FindStructuralDuplicates(parsed_files)
    /\ pc' = "structural_done"
    /\ UNCHANGED <<hashVars, tokVars, simVars, cfgVars, refVars, parVars, cliVars, mergeVars,
                   raised, exact, token, fuzzy, css_dups, duplicates, analyses>>

NextStructural == CallFindStructuralDuplicates

SpecStructural == InitStructural /\ [][NextStructural]_vars

\* the keywords in the bodies: if, return
Keywords == {<<105, 102>>, <<114, 101, 116, 117, 114, 110>>}

RECURSIVE Lex(_)
\* the lexemes of a body: an identifier, an integer literal or a string literal
\* counts as its kind only; a keyword and any other character count as themselves
Lex(text) ==
    IF Len(text) = 0 THEN <<>>
    ELSE IF IsWord(text[1])
    THEN LET stop == {k \in 1..Len(text) : ~IsWord(text[k])}
             n == IF stop = {} THEN Len(text) ELSE Least(stop) - 1
             run == SubSeq(text, 1, n)
             lexeme == IF run \in Keywords THEN [kind |-> "keyword", text |-> run]
                       ELSE IF IsNumber(run) THEN [kind |-> "integer", text |-> <<>>]
                       ELSE IF run[1] \notin 48..57 THEN [kind |-> "identifier", text |-> <<>>]
                       ELSE [kind |-> "other", text |-> run]
         IN <<lexeme>> \o Lex(SubSeq(text, n + 1, Len(text)))
    ELSE LET close == IF text[1] \in {34, 39}
                      THEN {k \in 2..Len(text) : text[k] = text[1]}
                      ELSE {}
         IN IF close # {}
            THEN <<[kind |-> "string", text |-> <<>>]>>
                     \o Lex(SubSeq(text, Least(close) + 1, Len(text)))
            ELSE <<[kind |-> "other", text |-> <<text[1]>>]>> \o Lex(Tail(text))

\* the blocks of the batch that have a body, as <<file index, block>>
BlocksWithBody ==
    {fb \in UNION {{<<f, BlocksOf(parsed_files[f])[b]>> :
                        b \in 1..Len(BlocksOf(parsed_files[f]))} :
                     f \in 1..Len(parsed_files)} :
        /\ HasKey(fb[2], "body")
        /\ fb[2].body # None
        /\ fb[2].body # <<>>}

\* the two bodies differ at most in the names of their identifiers and in the
\* values of their integer and string literals
SameExceptNamesAndLiterals(body1, body2) == Lex(body1) = Lex(body2)

\* a structural group with confidence 0.85 names the two blocks
ReportedAsStructural(fb1, fb2) ==
    \E k \in 1..Len(structural) :
        /\ structural[k].type = "structural"
        /\ structural[k].confidence = <<17, 20>>
        /\ LET m1 == [file |-> parsed_files[fb1[1]].path, block |-> fb1[2].name]
               m2 == [file |-> parsed_files[fb2[1]].path, block |-> fb2[2].name]
           IN structural[k].blocks \in {<<m1, m2>>, <<m2, m1>>}

\* C7: two blocks in different files whose bodies are identical except for the
\* names of identifiers and the values of integer and string literals get the
\* same signature from _normalize_block, and find_structural_duplicates reports
\* them in a structural group with confidence 0.85.
RenamedBlocksAreStructural ==
    pc = "structural_done" =>
        \A fb1, fb2 \in BlocksWithBody :
            (fb1[1] # fb2[1] /\ SameExceptNamesAndLiterals(fb1[2].body, fb2[2].body))
                => /\ NormalizeBlock(fb1[2]) = NormalizeBlock(fb2[2])
                   /\ ReportedAsStructural(fb1, fb2)

\* the blocks of the batch, as <<file index, block index>>
StructBlockPositions ==
    UNION {{<<f, b>> : b \in 1..Len(BlocksOf(parsed_files[f]))} :
              f \in 1..Len(parsed_files)}

\* the block at a position
StructBlockAt(p) == BlocksOf(parsed_files[p[1]])[p[2]]

\* the unordered pairs of blocks from distinct files whose signatures are equal
\* (and not empty), each written once, the block of the earlier file first
MatchingBlockPairs ==
    {pr \in StructBlockPositions \X StructBlockPositions :
        /\ pr[1][1] < pr[2][1]
        /\ NormalizeBlock(StructBlockAt(pr[1])) # <<>>
        /\ NormalizeBlock(StructBlockAt(pr[1])) = NormalizeBlock(StructBlockAt(pr[2]))}

\* the structural groups that name the two blocks of a pair, in either order
StructuralGroupsOf(pr) ==
    {k \in 1..Len(structural) :
        /\ structural[k].type = "structural"
        /\ LET m1 == [file |-> parsed_files[pr[1][1]].path,
                      block |-> StructBlockAt(pr[1]).name]
               m2 == [file |-> parsed_files[pr[2][1]].path,
                      block |-> StructBlockAt(pr[2]).name]
           IN structural[k].blocks \in {<<m1, m2>>, <<m2, m1>>}}

\* C20: find_structural_duplicates reports exactly one structural group for
\* each unordered pair of blocks from distinct files whose signatures are equal:
\* the orders (A,B) and (B,A) collapse to one group, and the deduplication
\* loses no matching pair, also when two blocks of one file have the same name.
OneStructuralGroupPerMatchingPair ==
    pc = "structural_done" =>
        /\ \A pr \in MatchingBlockPairs : StructuralGroupsOf(pr) # {}
        /\ Len(structural) = Cardinality(MatchingBlockPairs)

\* the block has a body: the key is there, and its value is neither None nor ''
HasBody(block) == HasKey(block, "body") /\ block.body # None /\ block.body # <<>>

\* the blocks at the positions are the two members of the group
MembersAt(group, p, q) ==
    /\ group.blocks[1] = [file |-> parsed_files[p[1]].path, block |-> StructBlockAt(p).name]
    /\ group.blocks[2] = [file |-> parsed_files[q[1]].path, block |-> StructBlockAt(q).name]

\* C21: in every structural group the two blocks come from two different
\* files, and each member is a block that has a body: a block whose body is
\* absent, None or empty is the first or second block of no structural group.
StructuralGroupsJoinBodiedBlocksOfTwoFiles ==
    pc = "structural_done" =>
        \A k \in 1..Len(structural) :
            /\ structural[k].blocks[1].file # structural[k].blocks[2].file
            /\ \E p, q \in StructBlockPositions :
                  /\ p[1] # q[1]
                  /\ HasBody(StructBlockAt(p)) /\ HasBody(StructBlockAt(q))
                  /\ MembersAt(structural[k], p, q)

\* a file holds a matched block next to a block without a body, and the other
\* file holds a block without a body too
BodilessBlocksBesideGroup ==
    /\ pc = "structural_done"
    /\ Len(structural) >= 1
    /\ Len(parsed_files) = 2
    /\ \A f \in 1..2 : \E b \in 1..Len(BlocksOf(parsed_files[f])) :
          ~HasBody(BlocksOf(parsed_files[f])[b])

RECURSIVE Rewritten(_)
\* the body with every lowercase-leading identifier replaced by VAR, every
\* uppercase-leading identifier by FUNC, every standalone integer literal by
\* NUM and every quoted string literal by STR
Rewritten(text) ==
    IF Len(text) = 0 THEN <<>>
    ELSE IF IsWord(text[1])
    THEN LET stop == {k \in 1..Len(text) : ~IsWord(text[k])}
             n == IF stop = {} THEN Len(text) ELSE Least(stop) - 1
             run == SubSeq(text, 1, n)
             repl == IF IsNumber(run) THEN <<78, 85, 77>>
                     ELSE IF run[1] \in (97..122) \cup {95} THEN <<86, 65, 82>>
                     ELSE IF run[1] \in 65..90 THEN <<70, 85, 78, 67>>
                     ELSE run
         IN repl \o Rewritten(SubSeq(text, n + 1, Len(text)))
    ELSE LET close == IF text[1] \in {34, 39}
                      THEN {k \in 2..Len(text) : text[k] = text[1]}
                      ELSE {}
         IN IF close # {}
            THEN <<83, 84, 82>> \o Rewritten(SubSeq(text, Least(close) + 1, Len(text)))
            ELSE <<text[1]>> \o Rewritten(Tail(text))

\* the body starts with a lowercase-leading identifier
StartsWithLowerIdentifier(body) == body[1] \in (97..122) \cup {95}

\* C17: the signature returned by _normalize_block is the block body in which
\* every lowercase-leading identifier is replaced by VAR, every
\* uppercase-leading identifier by FUNC, every standalone integer literal by NUM
\* and every string literal by STR; a body with a lowercase-leading identifier
\* outside any string literal has VAR at that identifier's place.
SignatureRewritesByKind ==
    pc = "structural_done" =>
        \A fb \in BlocksWithBody :
            /\ NormalizeBlock(fb[2]) = Rewritten(fb[2].body)
            /\ StartsWithLowerIdentifier(fb[2].body) =>
                  SubSeq(NormalizeBlock(fb[2]), 1, 3) = <<86, 65, 82>>

(***************************************************************************)
(* find_exact_duplicates on two files that share a block of lines.         *)
(***************************************************************************)
SharedBlockLines == 6   \* lines of the block both files contain
DefaultMinLines == 4    \* min_lines of the default configuration

\* the string hash seeds a process may run under
HashSeeds == {0, 1}

\* the lines "x", "y" of a shared block, and the lines "a", "b" only one file has
SharedLineTexts == {<<120>>, <<121>>}

\* the shared blocks: every block over "x" and "y", and "p".."u" all different
SharedBlocks ==
    [1..SharedBlockLines -> SharedLineTexts]
        \cup {[k \in 1..SharedBlockLines |-> <<111 + k>>]}

\* a text file of the given lines
TextShape(lines) == PyShape(JoinWith(<<10>>, lines), <<>>, <<>>, {})

InitScenario ==
    /\ pc = "exact_start"
    /\ \E block \in SharedBlocks, before \in {<<>>, << <<97>> >>},
          after \in {<<>>, << <<98>> >>} :
          parsed_files = <<FileOfShape(PathOf(1), TextShape(before \o block)),
                           FileOfShape(PathOf(2), TextShape(block \o after))>>
    /\ config = [min_lines |-> DefaultMinLines, min_tokens |-> 30,
                 similarity_threshold |-> <<17, 20>>]
    /\ NothingFound
    /\ IdleHashing /\ IdleSimilarity

\* exact = self.find_exact_duplicates(parsed_files)
CallFindExactDuplicates ==
    /\ pc = "exact_start"
    /\ \E seed \in HashSeeds :
          \E e \in {FindExactDuplicates(parsed_files, config.min_lines, seed)} :
             /\ raised' = IF e[1] = "ok" THEN "no" ELSE e[1]
             /\ exact' = e[2]
    /\ pc' = "exact_done"
    /\ UNCHANGED <<hashVars, tokVars, simVars, cfgVars, refVars, parVars, cliVars, mergeVars,
                   token, fuzzy, structural, css_dups, duplicates, analyses>>

NextScenario == CallFindExactDuplicates

SpecScenario == InitScenario /\ [][NextScenario]_vars

\* the exact_block groups found
ExactBlockGroups == SelectSeq(exact, LAMBDA g : g.type = "exact_block")

\* where the two files of the batch hold the same SharedBlockLines non-blank
\* lines, and share no other line: <<i, j>>, the 0-based first lines
SharedBlockOffsets ==
    LET a == parsed_files[1].lines
        b == parsed_files[2].lines
    IN {ij \in (0..(Len(a) - SharedBlockLines)) \X (0..(Len(b) - SharedBlockLines)) :
          /\ Slice(a, ij[1], ij[1] + SharedBlockLines)
                = Slice(b, ij[2], ij[2] + SharedBlockLines)
          /\ \A k \in 1..SharedBlockLines : Strip(a[ij[1] + k]) # <<>>
          /\ \A k \in 1..Len(a) :
                k \notin (ij[1] + 1)..(ij[1] + SharedBlockLines) => a[k] \notin Range(b)
          /\ \A k \in 1..Len(b) :
                k \notin (ij[2] + 1)..(ij[2] + SharedBlockLines) => b[k] \notin Range(a)}

\* the text of the window of min_lines lines that starts w lines into the block
SharedWindow(ij, w) ==
    JoinWith(<<10>>, Slice(parsed_files[1].lines, ij[1] + w, ij[1] + w + config.min_lines))

\* the starts of the windows that lie inside the shared block
SharedWindowStarts == 0..(SharedBlockLines - config.min_lines)

\* C8 as stated: two files with the same 6 consecutive non-blank lines and no
\* other common line give, with min_lines = 4, exactly one exact_block group,
\* with count 2, lines 6 and confidence 1.0.
SharedBlockIsOneGroup ==
    (pc = "exact_done" /\ Len(parsed_files) = 2 /\ config.min_lines = DefaultMinLines) =>
        \A ij \in SharedBlockOffsets :
            /\ Len(ExactBlockGroups) = 1
            /\ ExactBlockGroups[1].count = 2
            /\ ExactBlockGroups[1].lines = SharedBlockLines
            /\ ExactBlockGroups[1].confidence = <<1, 1>>

\* C8: two files with the same 6 consecutive non-blank lines and no other common
\* line give, with min_lines = 4, one exact_block group for each different
\* 4-line window of the shared block (3 groups when the 3 windows differ), each
\* with lines = 4, confidence 1.0 and count = twice the number of window
\* positions in the block that hold the text of the group.
SharedBlockIsOneGroupPerWindow ==
    (pc = "exact_done" /\ Len(parsed_files) = 2 /\ config.min_lines = DefaultMinLines) =>
        \A ij \in SharedBlockOffsets :
            /\ raised = "no"
            /\ Len(ExactBlockGroups)
                  = Cardinality({SharedWindow(ij, w) : w \in SharedWindowStarts})
            /\ \A n \in 1..Len(ExactBlockGroups) :
                  LET g == ExactBlockGroups[n]
                      same == {w \in SharedWindowStarts :
                                  SharedWindow(ij, w) = g.blocks[1].content}
                  IN /\ g.lines = config.min_lines
                     /\ g.confidence = <<1, 1>>
                     /\ g.count = 2 * Cardinality(same)
                     /\ g.count = Len(g.blocks)
                     /\ same # {}
            /\ \A m, n \in 1..Len(ExactBlockGroups) :
                  m # n => ExactBlockGroups[m].blocks[1].content
                              # ExactBlockGroups[n].blocks[1].content

\* a shared block of 6 different lines was matched: 3 groups of 2 windows
SharedBlockMatched ==
    /\ pc = "exact_done"
    /\ config.min_lines = DefaultMinLines
    /\ SharedBlockOffsets # {}
    /\ \A m, n \in 1..SharedBlockLines :
          m # n => parsed_files[2].lines[m] # parsed_files[2].lines[n]
    /\ Len(ExactBlockGroups) = 3
    /\ \A n \in 1..3 : ExactBlockGroups[n].count = 2 /\ ExactBlockGroups[n].lines = 4

(***************************************************************************)
(* The detector from its construction on: DuplicateDetector.__init__, then *)
(* Recator.analyze, which hands the parsed batch to find_duplicates, called *)
(* again and again on the same files.                                      *)
(***************************************************************************)
MaxFiles == 2   \* most files of a batch given to find_duplicates
MaxRuns == 2    \* most calls of Recator.analyze on the same files

\* Python files "x\ny" and "y\nx" with their words as tokens and one block; the
\* first one again without 'line_count', without 'tokens' and 'blocks', with a
\* block whose body is None, and with a block without 'body'
SourceShapes ==
    {PyShape(<<120, 10, 121>>, << <<120>>, <<121>> >>, <<Block(<<102>>, 1, 2, <<120, 32, 61, 32, 49>>)>>, {}),
     PyShape(<<121, 10, 120>>, << <<121>>, <<120>> >>, <<Block(<<103>>, 1, 1, <<121, 32, 61, 32, 50>>)>>, {}),
     PyShape(<<120, 10, 121>>, << <<120>>, <<121>> >>, <<Block(<<102>>, 1, 2, <<120, 32, 61, 32, 49>>)>>,
             {"line_count"}),
     PyShape(<<120, 10, 121>>, <<>>, <<>>, {"tokens", "blocks"}),
     PyShape(<<120, 10, 121>>, << <<120>>, <<121>> >>, <<Block(<<102>>, 1, 2, None)>>, {}),
     PyShape(<<120, 10, 121>>, << <<120>>, <<121>> >>,
             <<Without(Block(<<102>>, 1, 2, None), {"body"})>>, {})}

\* a stylesheet of two lines, the same rule in a template literal of a script,
\* and a page with two <style> elements on one line
StyleShapes ==
    {[extension |-> ".css", language |-> "css", content |-> <<97, 123, 10, 98, 58, 99, 125>>,
      tokens |-> <<>>, blocks |-> <<>>, lacks |-> {}],
     [extension |-> ".js", language |-> "javascript", content |-> <<96, 97, 123, 10, 98, 58, 99, 125, 96>>,
      tokens |-> <<>>, blocks |-> <<>>, lacks |-> {}],
     [extension |-> ".html", language |-> "html", content |-> <<60, 115, 116, 121, 108, 101, 62, 97, 60, 47, 115, 116, 121, 108, 101, 62, 60, 115, 116, 121, 108, 101, 62, 97, 60, 47, 115, 116, 121, 108, 101, 62>>,
      tokens |-> <<>>, blocks |-> <<>>, lacks |-> {}]}

\* the configuration dictionaries: no option (the defaults apply), two valid
\* ones, and min_lines = 0, min_tokens = 0, similarity_threshold = 1.5
ConfigDicts ==
    {<<>>,
     [min_lines |-> 1, min_tokens |-> 1, similarity_threshold |-> <<1, 2>>],
     [min_lines |-> 2, min_tokens |-> 2, similarity_threshold |-> <<1, 1>>],
     [min_lines |-> 0, min_tokens |-> 1, similarity_threshold |-> <<1, 2>>],
     [min_lines |-> 1, min_tokens |-> 0, similarity_threshold |-> <<1, 2>>],
     [min_lines |-> 1, min_tokens |-> 1, similarity_threshold |-> <<3, 2>>]}

\* config.get(key, default)
ConfigGet(dict, key, default) == IF HasKey(dict, key) THEN dict[key] ELSE default

Init ==
    /\ pc = "new"
    /\ parsed_files \in Batches(SourceShapes, 1, MaxFiles)
                            \cup Batches(StyleShapes, 1, MaxFiles)
    /\ config \in ConfigDicts
    /\ NothingFound
    /\ IdleHashing /\ IdleSimilarity

\* DuplicateDetector.__init__: the three options, or their defaults
Construct ==
    /\ pc = "new"
    /\ config' = [min_lines |-> ConfigGet(config, "min_lines", DefaultMinLines),
                  min_tokens |-> ConfigGet(config, "min_tokens", 30),
                  similarity_threshold |->
                      ConfigGet(config, "similarity_threshold", Float(85, 100))]
    /\ pc' = "constructed"
    /\ UNCHANGED <<hashVars, tokVars, simVars, parsed_files, outVars, analyses, refVars, parVars, cliVars, mergeVars>>

\* Recator.analyze on the unmodified files: find_duplicates(parsed_files) and the
\* returned summary
Analyze ==
    /\ pc = "constructed"
    /\ Len(analyses) < MaxRuns
    /\ \E seed \in HashSeeds :
          \E r \in {FindDuplicates(parsed_files, config.min_lines, config.min_tokens,
                                    config.similarity_threshold, seed)} :
             /\ raised' = r.raised
             /\ exact' = r.exact
             /\ token' = r.token
             /\ fuzzy' = r.fuzzy
             /\ structural' = r.structural
             /\ css_dups' = r.css_dups
             /\ duplicates' = r.duplicates
             /\ analyses' = Append(analyses,
                                [raised |-> r.raised,
                                 parsed_files |-> Len(parsed_files),
                                 duplicates_found |-> Len(r.duplicates),
                                 duplicates |-> r.duplicates])
    /\ UNCHANGED <<pc, hashVars, tokVars, simVars, cfgVars, refVars, parVars, cliVars, mergeVars>>

Next == Construct \/ Analyze

Spec == Init /\ [][Next]_vars

\* the detector is constructed and analyze has returned or raised at least once
Analysed == pc = "constructed" /\ Len(analyses) >= 1

\* min_lines < 1, min_tokens < 1, or similarity_threshold outside [0, 1]
InvalidConfig ==
    \/ config.min_lines < 1
    \/ config.min_tokens < 1
    \/ ~AtLeast(config.similarity_threshold, <<0, 1>>)
    \/ ~AtLeast(<<1, 1>>, config.similarity_threshold)

\* no two entries of the sequence have the same key
DistinctBy(entries, Key(_)) ==
    \A m, n \in 1..Len(entries) : m # n => Key(entries[m]) # Key(entries[n])

\* two different blocks of the batch have these files and names
NamesTwoBlocks(file_a, name_a, file_b, name_b) ==
    \E f \in 1..Len(parsed_files), g \in 1..Len(parsed_files) :
        \E b \in 1..Len(BlocksOf(parsed_files[f])), c \in 1..Len(BlocksOf(parsed_files[g])) :
            /\ <<f, b>> # <<g, c>>
            /\ parsed_files[f].path = file_a /\ parsed_files[f].blocks[b].name = name_a
            /\ parsed_files[g].path = file_b /\ parsed_files[g].blocks[c].name = name_b

\* the group has at least 2 members and no two of them are the same occurrence
HasDistinctMembers(g) ==
    CASE g.type \in {"exact", "fuzzy"} ->
            Len(g.files) >= 2 /\ DistinctBy(g.files, LAMBDA f : f)
      [] g.type \in {"exact_block", "css_block"} ->
            /\ Len(g.blocks) >= 2
            /\ DistinctBy(g.blocks, LAMBDA b : <<b.file, b.start_line>>)
      [] g.type = "token_sequence" ->
            /\ Len(g.groups) >= 2
            /\ DistinctBy(g.groups, LAMBDA t : <<t.file, t.position>>)
      [] g.type = "similar_block" ->
            /\ Len(g.blocks) >= 2
            /\ NamesTwoBlocks(g.blocks[1].file, g.blocks[1].name,
                              g.blocks[2].file, g.blocks[2].name)
      [] g.type = "structural" ->
            /\ Len(g.blocks) >= 2
            /\ NamesTwoBlocks(g.blocks[1].file, g.blocks[1].block,
                              g.blocks[2].file, g.blocks[2].block)

\* C1: every group in the list returned by find_duplicates has at least 2
\* members ('files', 'blocks' or 'groups'), and no two entries of one group are
\* the same occurrence, that is the same file and the same start position
\* (stated for the valid configurations).
GroupsHaveDistinctMembers ==
    (Analysed /\ ~InvalidConfig) => \A k \in 1..Len(duplicates) : HasDistinctMembers(duplicates[k])

\* the place of a file in the batch
FileIndex(path) == CHOOSE k \in 1..Len(parsed_files) : parsed_files[k].path = path

\* <<file, line>> pairs in the order in which the batch is scanned
ScannedBefore(x, y) == x[1] < y[1] \/ (x[1] = y[1] /\ x[2] < y[2])

\* where the first member of a group of a hash bucket was seen
FirstSeenAt(g) ==
    CASE g.type = "exact" -> <<FileIndex(g.files[1]), 0>>
      [] g.type \in {"exact_block", "css_block"} ->
            <<FileIndex(g.blocks[1].file), g.blocks[1].start_line>>
      [] g.type = "token_sequence" ->
            <<FileIndex(g.groups[1].file), g.groups[1].position>>

\* the groups of one type are listed in the order in which their buckets were
\* first seen (two stylesheet segments may start on the same line)
InFirstSeenOrder(groups, type) ==
    LET of_type == SelectSeq(groups, LAMBDA g : g.type = type)
    IN \A n \in 1..(Len(of_type) - 1) :
          \/ ScannedBefore(FirstSeenAt(of_type[n]), FirstSeenAt(of_type[n + 1]))
          \/ type = "css_block" /\ FirstSeenAt(of_type[n]) = FirstSeenAt(of_type[n + 1])

InvalidConfigFails ==
    (Analysed /\ InvalidConfig) =>
        /\ raised # "no"
        /\ exact = <<>> /\ token = <<>> /\ fuzzy = <<>>
        /\ structural = <<>> /\ css_dups = <<>> /\ duplicates = <<>>

\* a record lacks 'tokens', 'blocks' or 'line_count', or a block has no body
LacksOptionalField ==
    \E k \in 1..Len(parsed_files) :
        \/ ~HasKey(parsed_files[k], "tokens")
        \/ ~HasKey(parsed_files[k], "blocks")
        \/ ~HasKey(parsed_files[k], "line_count")
        \/ \E b \in 1..Len(BlocksOf(parsed_files[k])) :
              \/ ~HasKey(parsed_files[k].blocks[b], "body")
              \/ parsed_files[k].blocks[b].body = None

\* C10: find_duplicates finishes without raising on any batch in which some
\* records lack 'tokens', 'blocks', a block body or the line count (stated for
\* the valid configurations).
MissingFieldsNeverRaise ==
    (Analysed /\ ~InvalidConfig /\ LacksOptionalField) => raised = "no"

(***************************************************************************)
(* The exact-block matcher inside find_duplicates: files of blank and      *)
(* non-blank lines, every window length.                                   *)
(***************************************************************************)
MaxWinLines == 3    \* most lines of a file, and the largest min_lines

\* the lines "x" and " "
WindowLineTexts == {<<120>>, <<32>>}

\* a Kotlin file of the given lines: the generic tokenizer returns its words, the
\* generic block extractor finds nothing
PlainShape(lines) ==
    [extension |-> ".kt", language |-> "kotlin", content |-> JoinWith(<<10>>, lines),
     tokens |-> FindAllWords(JoinWith(<<10>>, lines)), blocks |-> <<>>, lacks |-> {}]

InitWindows ==
    /\ pc = "new"
    /\ parsed_files \in
          Batches({PlainShape(ls) : ls \in SeqsUpTo(WindowLineTexts, MaxWinLines)}, 1, 2)
    /\ config \in {[min_lines |-> m, min_tokens |-> 2, similarity_threshold |-> <<1, 2>>] :
                      m \in 1..MaxWinLines}
    /\ NothingFound
    /\ IdleHashing /\ IdleSimilarity

SpecWindows == InitWindows /\ [][Next]_vars

\* a line without a non-space character
IsBlankLine(line) == \A k \in 1..Len(line) : IsSpace(line[k])

\* at least half of the lines of the window are non-blank
IsDense(window) ==
    2 * Cardinality({k \in 1..Len(window) : ~IsBlankLine(window[k])}) >= Len(window)

\* <<k, i>>: the window of min_lines lines of file k that starts at line i
WindowPositions ==
    UNION {{<<k, i>> : i \in 1..(Len(parsed_files[k].lines) - config.min_lines + 1)} :
              k \in 1..Len(parsed_files)}

WindowAt(ki) == SubSeq(parsed_files[ki[1]].lines, ki[2], ki[2] + config.min_lines - 1)

\* the entry that stands for the window in a group
WindowEntry(ki) ==
    [file |-> parsed_files[ki[1]].path, start_line |-> ki[2],
     end_line |-> ki[2] + config.min_lines - 1,
     content |-> JoinWith(<<10>>, WindowAt(ki))]

\* the exact_block groups of the final result
FinalExactBlockGroups == SelectSeq(duplicates, LAMBDA g : g.type = "exact_block")

\* C12: a window of min_lines consecutive lines is recorded if and only if at
\* least half of its lines are non-blank; two recorded windows with equal text,
\* of one file or of two, are members of the same exact_block group of the
\* result of find_duplicates, so that duplicates_found >= 1; a window with fewer
\* than half non-blank lines is in no group.
DenseWindowsGrouped ==
    Analysed =>
        /\ raised = "no"
        /\ \A ki \in WindowPositions :
              IsDense(WindowAt(ki)) <=>
                  \E w \in Range(FileWindows(parsed_files[ki[1]], config.min_lines)) :
                      w[2] = WindowEntry(ki)
        /\ \A k1 \in WindowPositions, k2 \in WindowPositions :
              (k1 # k2 /\ IsDense(WindowAt(k1)) /\ WindowAt(k1) = WindowAt(k2)) =>
                  /\ \E g \in Range(FinalExactBlockGroups) :
                        {WindowEntry(k1), WindowEntry(k2)} \subseteq Range(g.blocks)
                  /\ analyses[Len(analyses)].duplicates_found >= 1
        /\ \A g \in Range(FinalExactBlockGroups) : \A b \in Range(g.blocks) :
              \E ki \in WindowPositions : b = WindowEntry(ki) /\ IsDense(WindowAt(ki))

\* two files share a window of which exactly half is non-blank, it is grouped,
\* and the batch also holds a window that is too blank
HalfBlankWindowGrouped ==
    /\ Analysed
    /\ config.min_lines = 2
    /\ \E k1 \in WindowPositions, k2 \in WindowPositions :
          /\ k1[1] # k2[1]
          /\ WindowAt(k1) = <<<<120>>, <<32>>>>
          /\ WindowAt(k2) = WindowAt(k1)
          /\ \E g \in Range(FinalExactBlockGroups) :
                {WindowEntry(k1), WindowEntry(k2)} \subseteq Range(g.blocks)
    /\ \E ki \in WindowPositions : ~IsDense(WindowAt(ki))

(***************************************************************************)
(* The stylesheet matcher inside find_duplicates: one markup file with a   *)
(* <style> element and one stylesheet file.                                *)
(***************************************************************************)
RECURSIVE RemoveLineComments(_, _)
\* re.sub(marker + r'.*?\n', '\n', content) for the markers "//" and "#"
RemoveLineComments(content, marker) ==
    IF Len(content) = 0 THEN <<>>
    ELSE IF /\ Len(content) >= Len(marker)
            /\ SubSeq(content, 1, Len(marker)) = marker
            /\ \E k \in (Len(marker) + 1)..Len(content) : content[k] = 10
    THEN LET k == Least({x \in (Len(marker) + 1)..Len(content) : content[x] = 10})
         IN <<10>> \o RemoveLineComments(SubSeq(content, k + 1, Len(content)), marker)
    ELSE <<content[1]>> \o RemoveLineComments(Tail(content), marker)

RECURSIVE FindAllTokens(_)
\* re.findall(r'\w+|[^\w\s]', text)
FindAllTokens(text) ==
    IF Len(text) = 0 THEN <<>>
    ELSE IF IsSpace(text[1]) THEN FindAllTokens(Tail(text))
    ELSE IF ~IsWord(text[1]) THEN <<<<text[1]>>>> \o FindAllTokens(Tail(text))
    ELSE LET stop == {k \in 1..Len(text) : ~IsWord(text[k])}
             n == IF stop = {} THEN Len(text) ELSE Least(stop) - 1
         IN <<SubSeq(text, 1, n)>> \o FindAllTokens(SubSeq(text, n + 1, Len(text)))

\* GenericTokenizer.tokenize (the filter of line 215 drops nothing: no token of
\* findall is a space)
GenericTokenize(content) ==
    FindAllTokens(RemoveLineComments(
        StripComments(RemoveLineComments(content, <<47, 47>>)), <<35>>))

\* the style texts "a>b{c:d}", "a > b{c:d}", "a>b{ c:d }", "a>b{c:d}/*x*/", "a>b{" and "c:d}" on two lines, "e f{c:d}", "e/**/f{c:d}"
StyleTexts ==
    {<<97, 62, 98, 123, 99, 58, 100, 125>>,
     <<97, 32, 62, 32, 98, 123, 99, 58, 100, 125>>,
     <<97, 62, 98, 123, 32, 99, 58, 100, 32, 125>>,
     <<97, 62, 98, 123, 99, 58, 100, 125, 47, 42, 120, 42, 47>>,
     <<97, 62, 98, 123, 10, 99, 58, 100, 125>>,
     <<101, 32, 102, 123, 99, 58, 100, 125>>,
     <<101, 47, 42, 42, 47, 102, 123, 99, 58, 100, 125>>}

\* a stylesheet file holding the text, and a markup file holding it in a <style>
\* element; the generic tokenizer and the generic block extractor apply
CssFileShape(text) ==
    [extension |-> ".css", language |-> "css", content |-> text,
     tokens |-> GenericTokenize(text), blocks |-> <<>>, lacks |-> {}]
MarkupShape(text) ==
    LET content == <<60, 115, 116, 121, 108, 101, 62>> \o text \o <<60, 47, 115, 116, 121, 108, 101, 62>>
    IN [extension |-> ".html", language |-> "html", content |-> content,
        tokens |-> GenericTokenize(content), blocks |-> <<>>, lacks |-> {}]

InitStyles ==
    /\ pc = "new"
    /\ \E t1 \in StyleTexts, t2 \in StyleTexts :
          \/ parsed_files = <<FileOfShape(PathOf(1), MarkupShape(t1)),
                              FileOfShape(PathOf(2), CssFileShape(t2))>>
          \/ parsed_files = <<FileOfShape(PathOf(1), CssFileShape(t2)),
                              FileOfShape(PathOf(2), MarkupShape(t1))>>
    /\ config \in {[min_lines |-> m, min_tokens |-> 30, similarity_threshold |-> <<17, 20>>] :
                      m \in {1, 2}}
    /\ NothingFound
    /\ IdleHashing /\ IdleSimilarity

SpecStyles == InitStyles /\ [][Next]_vars

RECURSIVE StyleLexemes(_)
\* the words and the punctuation marks of a style text, in order: white space
\* and block comments separate them and are dropped
StyleLexemes(text) ==
    IF Len(text) = 0 THEN <<>>
    ELSE IF /\ Len(text) >= 4 /\ text[1] = 47 /\ text[2] = 42
            /\ \E k \in 3..(Len(text) - 1) : text[k] = 42 /\ text[k + 1] = 47
    THEN LET k == Least({x \in 3..(Len(text) - 1) : text[x] = 42 /\ text[x + 1] = 47})
         IN StyleLexemes(SubSeq(text, k + 2, Len(text)))
    ELSE IF IsSpace(text[1]) THEN StyleLexemes(Tail(text))
    ELSE IF ~IsWord(text[1]) THEN <<<<text[1]>>>> \o StyleLexemes(Tail(text))
    ELSE LET stop == {k \in 1..Len(text) : ~IsWord(text[k])}
             n == IF stop = {} THEN Len(text) ELSE Least(stop) - 1
         IN <<SubSeq(text, 1, n)>> \o StyleLexemes(SubSeq(text, n + 1, Len(text)))

\* the two texts differ only in white space and block comments
DifferOnlyInSpaceAndComments(t1, t2) == StyleLexemes(t1) = StyleLexemes(t2)

\* the number of lines of a segment
SegmentLines(text) == CountChar(text, 10) + 1

\* the index of the markup file and of the stylesheet file of the batch
MarkupIndex == CHOOSE k \in 1..2 : parsed_files[k].extension = ".html"
SheetIndex == CHOOSE k \in 1..2 : parsed_files[k].extension = ".css"

\* the one segment of file k
SegmentOf(k) == ExtractCssSegments(parsed_files[k])[1].content

\* the css_block groups of the final result
FinalCssGroups == SelectSeq(duplicates, LAMBDA g : g.type = "css_block")

\* the two segments are the two members of one css_block group
GroupedAcrossContexts ==
    \E g \in Range(FinalCssGroups) :
        /\ g.count = 2
        /\ Len(g.blocks) = 2
        /\ {b.file : b \in Range(g.blocks)} = {PathOf(1), PathOf(2)}
        /\ g.confidence = Float(1, 1)

\* C13: a segment in a <style> element of a markup file and a whole stylesheet
\* file whose texts differ only in white space and block comments, both of at
\* least min_lines lines, get the same normalized text and are reported in one
\* css_block group with count 2 and confidence 1.0; a segment of fewer than
\* min_lines lines is in no css_block group.
StyleSegmentsGroupedAcrossContexts ==
    Analysed =>
        /\ (/\ DifferOnlyInSpaceAndComments(SegmentOf(MarkupIndex), SegmentOf(SheetIndex))
            /\ SegmentLines(SegmentOf(MarkupIndex)) >= config.min_lines
            /\ SegmentLines(SegmentOf(SheetIndex)) >= config.min_lines)
              => /\ NormalizeCssText(SegmentOf(MarkupIndex))
                        = NormalizeCssText(SegmentOf(SheetIndex))
                 /\ GroupedAcrossContexts
        /\ \A g \in Range(FinalCssGroups) : \A b \in Range(g.blocks) :
              \A k \in 1..2 :
                  b.file = PathOf(k) => SegmentLines(SegmentOf(k)) >= config.min_lines

(***************************************************************************)
(* The confidence of the groups find_duplicates returns.                   *)
(***************************************************************************)
\* the types of the groups of the final result
FinalTypes == {g.type : g \in Range(duplicates)}

\* C14: every group returned by find_duplicates carries a confidence in [0,1]
\* fixed by its type: 1.0 for exact, exact_block and css_block, 0.9 for
\* token_sequence, 0.85 for structural, and the group's similarity for fuzzy and
\* similar_block.
ConfidenceFixedByType ==
    \A g \in Range(duplicates) :
        /\ HasKey(g, "confidence")
        /\ AtLeast(g.confidence, <<0, 1>>)
        /\ AtLeast(<<1, 1>>, g.confidence)
        /\ g.type \in {"exact", "exact_block", "css_block", "token_sequence",
                       "structural", "fuzzy", "similar_block"}
        /\ g.type \in {"exact", "exact_block", "css_block"} => g.confidence = <<1, 1>>
        /\ g.type = "token_sequence" => g.confidence = <<9, 10>>
        /\ g.type = "structural" => g.confidence = <<17, 20>>
        /\ g.type \in {"fuzzy", "similar_block"} =>
              HasKey(g, "similarity") /\ g.confidence = g.similarity

\* one result holds exact, exact_block, token_sequence, similar_block and
\* structural groups
FiveTypesReturned ==
    /\ Analysed
    /\ {"exact", "exact_block", "token_sequence", "similar_block", "structural"}
          \subseteq FinalTypes

(***************************************************************************)
(* Whole-file exact matching on files that differ in their whitespace.     *)
(***************************************************************************)
MaxWholeFiles == 4  \* most files of a batch given to find_exact_duplicates

\* the texts "x y", "x  y", " x\ny ", "xy" and ""
WholeTexts ==
    {<<120, 32, 121>>, <<120, 32, 32, 121>>, <<32, 120, 10, 121, 32>>, <<120, 121>>, <<>>}

InitWhole ==
    /\ pc = "exact_start"
    /\ parsed_files \in
          Batches({PyShape(text, <<>>, <<>>, {}) : text \in WholeTexts}, 1, MaxWholeFiles)
    /\ config = [min_lines |-> DefaultMinLines, min_tokens |-> 30,
                 similarity_threshold |-> <<17, 20>>]
    /\ NothingFound
    /\ IdleHashing /\ IdleSimilarity

SpecWhole == InitWhole /\ [][NextScenario]_vars

RECURSIVE SpaceSeparated(_)
\* the maximal runs of non-whitespace characters of the text
SpaceSeparated(text) ==
    IF Len(text) = 0 THEN <<>>
    ELSE IF IsSpace(text[1]) THEN SpaceSeparated(Tail(text))
    ELSE LET stop == {k \in 1..Len(text) : IsSpace(text[k])}
             n == IF stop = {} THEN Len(text) ELSE Least(stop) - 1
         IN <<SubSeq(text, 1, n)>> \o SpaceSeparated(SubSeq(text, n + 1, Len(text)))

\* the hash of the text of file k with every whitespace run collapsed to one
\* space and the ends trimmed
NormalizedTextHash(k) ==
    stable_hash_text(JoinWith(<<32>>, SpaceSeparated(parsed_files[k].content)))

\* the exact groups returned by find_exact_duplicates
ExactGroups == SelectSeq(exact, LAMBDA g : g.type = "exact")

\* the files of the batch whose normalized text has the hash, in input order
HashBucket(hash) ==
    SelectSeq([k \in 1..Len(parsed_files) |-> k], LAMBDA k : NormalizedTextHash(k) = hash)

\* C23: two files are members of the same exact group iff the hashes of their
\* whitespace-normalized texts are equal; there is exactly one exact group per
\* hash bucket of two or more files, its files are the bucket's paths in input
\* order, its count is their number, and a path is in at most one exact group.
ExactGroupsAreHashBuckets ==
    (pc = "exact_done" /\ raised = "no") =>
        /\ \A i, j \in 1..Len(parsed_files) :
              i < j =>
                ((\E g \in Range(ExactGroups) :
                      {parsed_files[i].path, parsed_files[j].path} \subseteq Range(g.files))
                   <=> NormalizedTextHash(i) = NormalizedTextHash(j))
        /\ \A n \in 1..Len(ExactGroups) :
              LET g == ExactGroups[n]
                  bucket == HashBucket(g.hash)
              IN /\ Len(bucket) >= 2
                 /\ g.files = [m \in 1..Len(bucket) |-> parsed_files[bucket[m]].path]
                 /\ g.count = Len(bucket)
                 /\ \A n2 \in 1..Len(ExactGroups) : n2 # n => ExactGroups[n2].hash # g.hash
        /\ \A k \in 1..Len(parsed_files) :
              Cardinality({nm \in UNION {{<<n, m>> : m \in 1..Len(ExactGroups[n].files)} :
                                             n \in 1..Len(ExactGroups)} :
                             ExactGroups[nm[1]].files[nm[2]] = parsed_files[k].path}) <= 1

\* two exact groups, one of files whose texts differ in their whitespace
TwoBucketsOneAcrossWhitespace ==
    /\ pc = "exact_done"
    /\ Len(ExactGroups) = 2
    /\ \E i, j \in 1..Len(parsed_files) :
          /\ parsed_files[i].content # parsed_files[j].content
          /\ \E g \in Range(ExactGroups) :
                {parsed_files[i].path, parsed_files[j].path} \subseteq Range(g.files)

(***************************************************************************)
(* The window matchers under every window length the constructor accepts.  *)
(***************************************************************************)
\* the constructor takes min_lines and min_tokens as given, also 0 and -1; the
\* files have one token per line
InitRanges ==
    /\ pc = "new"
    /\ parsed_files \in
          Batches({PlainShape(ls) : ls \in SeqsUpTo({<<120>>, <<121>>}, MaxWinLines)}, 1, 2)
    /\ config \in {[min_lines |-> m, min_tokens |-> m, similarity_threshold |-> <<1, 2>>] :
                      m \in (-1)..2}
    /\ NothingFound
    /\ IdleHashing /\ IdleSimilarity

SpecRanges == InitRanges /\ [][Next]_vars

\* the occurrences file k has in the exact_block groups
OccurrencesOf(k) ==
    UNION {{<<n, m>> : m \in {x \in 1..Len(ExactBlockGroups[n].blocks) :
                                ExactBlockGroups[n].blocks[x].file = parsed_files[k].path}} :
              n \in 1..Len(ExactBlockGroups)}

\* C22: every occurrence of an exact_block group is a 1-based inclusive range
\* inside its file: 1 <= start_line, end_line = start_line + min_lines - 1,
\* end_line <= the number of lines of the file, content is the newline-join of
\* exactly those lines, and the group's lines is min_lines; a file with fewer
\* than min_lines lines has no occurrence, and a file with L >= min_lines lines
\* has at most L - min_lines + 1.
ExactBlockOccurrencesAreRanges ==
    (Analysed /\ raised = "no") =>
        /\ \A g \in Range(ExactBlockGroups) :
              /\ g.lines = config.min_lines
              /\ \A b \in Range(g.blocks) :
                    \E k \in 1..Len(parsed_files) :
                        /\ b.file = parsed_files[k].path
                        /\ 1 <= b.start_line
                        /\ b.end_line = b.start_line + config.min_lines - 1
                        /\ b.end_line <= Len(parsed_files[k].lines)
                        /\ b.content = JoinWith(<<10>>, SubSeq(parsed_files[k].lines,
                                                              b.start_line, b.end_line))
        /\ \A k \in 1..Len(parsed_files) :
              IF Len(parsed_files[k].lines) < config.min_lines
              THEN OccurrencesOf(k) = {}
              ELSE Cardinality(OccurrencesOf(k))
                       <= Len(parsed_files[k].lines) - config.min_lines + 1

\* the token stream of file k
TokensOf(k) == IF HasKey(parsed_files[k], "tokens") THEN parsed_files[k].tokens ELSE <<>>

\* the windows of all files, in the order they are recorded
AllTokenWindows ==
    Flatten([k \in 1..Len(parsed_files) |->
                FileTokenWindows(parsed_files[k], config.min_tokens)])

\* C24: a file with T tokens records exactly max(0, T - min_tokens + 1)
\* windows, window k (position k, 0-based) being tokens[k .. k+min_tokens-1] of
\* length exactly min_tokens; the windows of all files are grouped by the hash
\* of the separator-joined window, and one token_sequence group is emitted per
\* bucket of two or more, with count the number of occurrences, token_count =
\* min_tokens and confidence 0.9; a file with fewer than min_tokens tokens
\* contributes nothing.
TokenWindowsGroupedByHash ==
    (Analysed /\ raised = "no") =>
        /\ \A k \in 1..Len(parsed_files) :
              LET windows == FileTokenWindows(parsed_files[k], config.min_tokens)
                  T == Len(TokensOf(k))
              IN /\ Len(windows) = Max(0, T - config.min_tokens + 1)
                 /\ \A n \in 1..Len(windows) :
                       /\ windows[n][2].file = parsed_files[k].path
                       /\ windows[n][2].position = n - 1
                       /\ windows[n][2].tokens
                             = SubSeq(TokensOf(k), n, n + config.min_tokens - 1)
                       /\ Len(windows[n][2].tokens) = config.min_tokens
                       /\ windows[n][1] = stable_hash_text(JoinWith(<<31>>, windows[n][2].tokens))
        /\ \A n \in 1..Len(token) :
              LET bucket == SelectSeq(AllTokenWindows, LAMBDA w : w[1] = token[n].hash)
              IN /\ token[n].type = "token_sequence"
                 /\ Len(bucket) >= 2
                 /\ token[n].groups = [m \in 1..Len(bucket) |-> bucket[m][2]]
                 /\ token[n].count = Len(bucket)
                 /\ token[n].token_count = config.min_tokens
                 /\ token[n].confidence = <<9, 10>>
                 /\ \A n2 \in 1..Len(token) : n2 # n => token[n2].hash # token[n].hash
        /\ \A w1, w2 \in 1..Len(AllTokenWindows) :
              (w1 # w2 /\ AllTokenWindows[w1][1] = AllTokenWindows[w2][1])
                 => \E n \in 1..Len(token) : token[n].hash = AllTokenWindows[w1][1]

(***************************************************************************)
(* recator/refactor.py and Recator.refactor_duplicates.                    *)
(***************************************************************************)
\* the types create_refactoring_plan plans an action for
PlannedTypes == {"exact", "exact_block", "token_sequence", "similar_block", "structural"}

\* _strategy_for
StrategyFor(dup_type) ==
    CASE dup_type = "exact" -> "extract_module"
      [] dup_type = "exact_block" -> "extract_method"
      [] dup_type = "structural" -> "extract_class"
      [] OTHER -> "parameterize"

\* _priority_for
PriorityFor(dup_type) ==
    CASE dup_type = "exact" -> 1
      [] dup_type \in {"exact_block", "structural"} -> 2
      [] dup_type \in {"token_sequence", "similar_block"} -> 3
      [] OTHER -> 5

\* _description_for
DescriptionFor(dup_type) ==
    CASE dup_type = "exact" -> "Extract duplicate code to a shared module"
      [] dup_type = "exact_block" -> "Extract duplicate block into a method"
      [] dup_type = "token_sequence" -> "Parameterize similar token sequences"
      [] dup_type = "similar_block" -> "Parameterize similar code blocks"
      [] dup_type = "structural" -> "Extract common structure into a base class"
      [] OTHER -> "Refactor duplicated logic"

\* a plan with an action for every group, of whatever type
CreateRefactoringPlanOfEveryGroup(dups) ==
    LET plan == [n \in 1..Len(dups) |->
                    [strategy |-> StrategyFor(dups[n].type),
                     duplicate |-> dups[n],
                     priority |-> PriorityFor(dups[n].type),
                     description |-> DescriptionFor(dups[n].type)]]
    IN Flatten([p \in 1..5 |-> SelectSeq(plan, LAMBDA a : a.priority = p)])

\* create_refactoring_plan: one action per planned group, then the stable sort
\* by priority
CreateRefactoringPlan(dups) ==
    LET planned == SelectSeq(dups, LAMBDA dup : dup.type \in PlannedTypes)
        plan == [n \in 1..Len(planned) |->
                    [strategy |-> StrategyFor(planned[n].type),
                     duplicate |-> planned[n],
                     priority |-> PriorityFor(planned[n].type),
                     description |-> DescriptionFor(planned[n].type)]]
    IN Flatten([p \in 1..5 |-> SelectSeq(plan, LAMBDA a : a.priority = p)])

RECURSIVE SortedList(_)
\* sorted(list(files)) for a set of strings
SortedList(files) ==
    IF files = {} THEN <<>>
    ELSE LET m == CHOOSE x \in files : \A y \in files : ~LexLess(y, x)
         IN <<m>> \o SortedList(files \ {m})

\* the files of the blocks of a group only
DupFilesOfBlocks(dup) ==
    IF HasKey(dup, "blocks")
    THEN {b.file : b \in {x \in Range(dup.blocks) : HasKey(x, "file")}}
    ELSE {}

\* the files preview_refactoring collects for one group (lines 44-48): its
\* 'files' and the 'file' of each of its 'blocks'
DupFiles(dup) ==
    (IF HasKey(dup, "files") THEN Range(dup.files) ELSE {})
        \cup (IF HasKey(dup, "blocks")
              THEN {b.file : b \in {x \in Range(dup.blocks) : HasKey(x, "file")}}
              ELSE {})

\* _affected_files: the entries of 'files' are strings in every group of the
\* detector
AffectedFiles(action) ==
    (IF HasKey(action.duplicate, "files") THEN Range(action.duplicate.files) ELSE {})
        \cup (IF HasKey(action.duplicate, "blocks")
              THEN {b.file : b \in {x \in Range(action.duplicate.blocks) : HasKey(x, "file")}}
              ELSE {})

RECURSIVE SumSeq(_)
SumSeq(ns) == IF Len(ns) = 0 THEN 0 ELSE ns[1] + SumSeq(Tail(ns))

\* lines 40-42: lines * max(count - 1, 1) for a group that has 'lines'
LocReduction(dup) ==
    IF HasKey(dup, "lines")
    THEN dup.lines * Max((IF HasKey(dup, "count") THEN dup.count ELSE 2) - 1, 1)
    ELSE 0

\* preview_refactoring
PreviewRefactoring(plan) ==
    [total_actions |-> Len(plan),
     actions |-> [n \in 1..Len(plan) |->
                    [strategy |-> plan[n].strategy,
                     description |-> plan[n].description,
                     affected_files |-> SortedList(AffectedFiles(plan[n])),
                     confidence |-> plan[n].duplicate.confidence]],
     estimated_loc_reduction |-> SumSeq([n \in 1..Len(plan) |-> LocReduction(plan[n].duplicate)]),
     affected_files |-> SortedList(UNION {DupFiles(plan[n].duplicate) : n \in 1..Len(plan)})]

\* apply_refactoring
ApplyRefactoring(plan) ==
    [successful |-> plan, failed |-> <<>>, modified_files |-> <<>>, created_files |-> <<>>]

\* lines 80-87 of Recator.refactor_duplicates: the plan, then the preview of a
\* dry run or the application
PlanAndRun(dups, dry_run, is_none) ==
    /\ refactoring_plan' = CreateRefactoringPlan(dups)
    /\ results' = IF dry_run THEN PreviewRefactoring(CreateRefactoringPlan(dups))
                  ELSE ApplyRefactoring(CreateRefactoringPlan(dups))
    /\ refactor_call' = [duplicates_is_none |-> is_none, dry_run |-> dry_run,
                         applied |-> ~dry_run]

\* Recator.refactor_duplicates(duplicates, dry_run) on the unmodified files,
\* duplicates being None or the groups of the last analysis
RefactorDuplicates ==
    /\ pc = "constructed"
    /\ \E dry_run \in BOOLEAN :
          \/ /\ Len(analyses) < MaxRuns
             /\ \E seed \in HashSeeds :
                   \E r \in {FindDuplicates(parsed_files, config.min_lines, config.min_tokens,
                                             config.similarity_threshold, seed)} :
                      /\ raised' = r.raised
                      /\ exact' = r.exact
                      /\ token' = r.token
                      /\ fuzzy' = r.fuzzy
                      /\ structural' = r.structural
                      /\ css_dups' = r.css_dups
                      /\ duplicates' = r.duplicates
                      /\ analyses' = Append(analyses,
                                         [raised |-> r.raised,
                                          parsed_files |-> Len(parsed_files),
                                          duplicates_found |-> Len(r.duplicates),
                                          duplicates |-> r.duplicates])
                      /\ IF r.raised = "no"
                         THEN PlanAndRun(r.duplicates, dry_run, TRUE)
                         ELSE /\ refactoring_plan' = <<>>
                              /\ results' = <<>>
                              /\ refactor_call' = [duplicates_is_none |-> TRUE,
                                                   dry_run |-> dry_run, applied |-> FALSE]
          \/ /\ Len(analyses) >= 1
             /\ analyses[Len(analyses)].raised = "no"
             /\ PlanAndRun(analyses[Len(analyses)].duplicates, dry_run, FALSE)
             /\ UNCHANGED <<outVars, analyses>>
    /\ UNCHANGED <<pc, hashVars, tokVars, simVars, cfgVars, mergeVars, parVars, cliVars>>

\* a project of two Python files or two style files, under the default
\* configuration or one of two others
InitRefactor ==
    /\ pc = "new"
    /\ parsed_files \in Batches(SourceShapes, 2, 2) \cup Batches(StyleShapes, 2, 2)
    /\ config \in {c \in ConfigDicts : c = <<>> \/ c.min_lines = c.min_tokens}
    /\ NothingFound
    /\ IdleHashing /\ IdleSimilarity

\* the analysis runs inside refactor_duplicates(None)
NextRefactor == Construct \/ RefactorDuplicates

SpecRefactor == InitRefactor /\ [][NextRefactor]_vars

\* refactor_duplicates has returned from a dry run
DryRunReturned ==
    /\ refactor_call # <<>>
    /\ refactor_call.dry_run
    /\ results # <<>>

\* the sequence is sorted and holds no string twice
StrictlySorted(strings) ==
    \A k \in 1..(Len(strings) - 1) : LexLess(strings[k], strings[k + 1])

\* the groups of the sequence that get an action
PlannedGroups(dups) == {g \in Range(dups) : g.type \in PlannedTypes}

\* the files named by the 'files' or the 'blocks' of a group
NamedFiles(g) ==
    {f \in {PathOf(k) : k \in 1..Len(parsed_files)} :
        \/ HasKey(g, "files") /\ \E n \in 1..Len(g.files) : g.files[n] = f
        \/ HasKey(g, "blocks") /\ \E n \in 1..Len(g.blocks) : g.blocks[n].file = f}

\* C15: refactor_duplicates with dry_run=True never calls apply_refactoring and
\* returns the preview of the plan: total_actions is the number of planned
\* actions, 'actions' has one entry per planned action in plan order, and
\* 'affected_files' is the sorted duplicate-free list of every file named by
\* the 'files' or 'blocks' of the planned duplicates; when duplicates is None
\* the plan is built from a fresh analyze().
DryRunPreviewsPlan ==
    DryRunReturned =>
        /\ ~refactor_call.applied
        /\ ~HasKey(results, "successful")
        /\ results.total_actions = Len(refactoring_plan)
        /\ Len(results.actions) = Len(refactoring_plan)
        /\ \A n \in 1..Len(refactoring_plan) :
              /\ results.actions[n].strategy = refactoring_plan[n].strategy
              /\ results.actions[n].description = refactoring_plan[n].description
              /\ results.actions[n].confidence = refactoring_plan[n].duplicate.confidence
              /\ Range(results.actions[n].affected_files)
                    = NamedFiles(refactoring_plan[n].duplicate)
        /\ StrictlySorted(results.affected_files)
        /\ Range(results.affected_files)
              = UNION {NamedFiles(refactoring_plan[n].duplicate) :
                         n \in 1..Len(refactoring_plan)}
        /\ {refactoring_plan[n].duplicate : n \in 1..Len(refactoring_plan)}
              = PlannedGroups(analyses[Len(analyses)].duplicates)
        /\ Len(refactoring_plan) = Len(SelectSeq(analyses[Len(analyses)].duplicates,
                                                 LAMBDA g : g.type \in PlannedTypes))
        /\ refactor_call.duplicates_is_none => duplicates = analyses[Len(analyses)].duplicates

\* a dry run on duplicates=None previewed a plan of several actions whose
\* files come from 'files' and from 'blocks'
DryRunOfFreshAnalysis ==
    /\ DryRunReturned
    /\ refactor_call.duplicates_is_none
    /\ results.total_actions >= 3
    /\ \E n \in 1..Len(refactoring_plan) : HasKey(refactoring_plan[n].duplicate, "files")
    /\ \E n \in 1..Len(refactoring_plan) : HasKey(refactoring_plan[n].duplicate, "blocks")
    /\ Len(results.affected_files) = 2

\* the duplicates the last call of refactor_duplicates planned for
PlannedInput == analyses[Len(analyses)].duplicates

\* the priority the claim gives a type
ClaimedPriority(dup_type) ==
    CASE dup_type = "exact" -> 1
      [] dup_type \in {"exact_block", "structural"} -> 2
      [] dup_type \in {"token_sequence", "similar_block"} -> 3

\* the place in the plan of the action for the planned duplicate at index i of
\* the input: after the planned duplicates of lower priority and the earlier
\* ones of the same priority
PlaceInPlan(i) ==
    Cardinality({j \in 1..Len(PlannedInput) :
        /\ PlannedInput[j].type \in PlannedTypes
        /\ \/ ClaimedPriority(PlannedInput[j].type) < ClaimedPriority(PlannedInput[i].type)
           \/ /\ ClaimedPriority(PlannedInput[j].type) = ClaimedPriority(PlannedInput[i].type)
              /\ j <= i})

\* C28: create_refactoring_plan emits exactly one action for each duplicate of
\* type exact, exact_block, token_sequence, similar_block or structural and
\* none for another type; the plan is ordered by non-decreasing priority (exact
\* 1; exact_block and structural 2; token_sequence and similar_block 3), and
\* actions of equal priority keep the order of their duplicates in the input.
PlanIsStableByPriority ==
    (refactor_call # <<>> /\ raised = "no") =>
        /\ Len(refactoring_plan)
              = Cardinality({i \in 1..Len(PlannedInput) : PlannedInput[i].type \in PlannedTypes})
        /\ \A n \in 1..Len(refactoring_plan) :
              /\ refactoring_plan[n].duplicate.type \in PlannedTypes
              /\ refactoring_plan[n].priority
                    = ClaimedPriority(refactoring_plan[n].duplicate.type)
              /\ n > 1 => refactoring_plan[n - 1].priority <= refactoring_plan[n].priority
        /\ \A i \in 1..Len(PlannedInput) :
              PlannedInput[i].type \in PlannedTypes =>
                  refactoring_plan[PlaceInPlan(i)].duplicate = PlannedInput[i]

\* the plan of an input with a fuzzy group, in which a structural group stood
\* behind a token_sequence group and an exact_block group before it
PlanReordersAndSkips ==
    /\ refactor_call # <<>>
    /\ raised = "no"
    /\ \E i \in 1..Len(PlannedInput) : PlannedInput[i].type = "fuzzy"
    /\ \E i, j, k \in 1..Len(PlannedInput) :
          /\ i < j /\ j < k
          /\ PlannedInput[i].type = "exact_block"
          /\ PlannedInput[j].type = "token_sequence"
          /\ PlannedInput[k].type = "structural"
    /\ Len(refactoring_plan) >= 4

(***************************************************************************)
(* Projects with and without duplicated content, the empty project         *)
(* included.                                                               *)
(***************************************************************************)
\* Python files "x\ny", "y\nx", "z\nw" (twice) and "x\nz" with one block each, of
\* body "x = 1", "y(2)", "A + 1", "z = 2" and "B.c"; the one-line files "xy x",
\* "x yx", "x y" and "x  y"; the stylesheet "a>b{c:d}" and markup files holding
\* "a > b{c:d}" and "a>b{ c:d }"
ProjectShapes ==
    {PyShape(<<120, 10, 121>>, <<<<120>>, <<121>>>>, <<Block(<<102>>, 1, 2, <<120, 32, 61, 32, 49>>)>>, {}),
     PyShape(<<121, 10, 120>>, <<<<121>>, <<120>>>>, <<Block(<<103>>, 1, 1, <<121, 40, 50, 41>>)>>, {}),
     PyShape(<<122, 10, 119>>, <<<<122>>, <<119>>>>, <<Block(<<104>>, 1, 1, <<65, 32, 43, 32, 49>>)>>, {}),
     PyShape(<<122, 10, 119>>, <<<<122>>, <<119>>>>, <<Block(<<104>>, 1, 1, <<122, 32, 61, 32, 50>>)>>, {}),
     PyShape(<<120, 10, 122>>, <<<<120>>, <<122>>>>, <<Block(<<107>>, 1, 2, <<66, 46, 99>>)>>, {}),
     PlainShape(<<<<120, 121, 32, 120>>>>),
     PlainShape(<<<<120, 32, 121, 120>>>>),
     PlainShape(<<<<120, 32, 121>>>>),
     PlainShape(<<<<120, 32, 32, 121>>>>),
     CssFileShape(<<97, 62, 98, 123, 99, 58, 100, 125>>),
     MarkupShape(<<97, 32, 62, 32, 98, 123, 99, 58, 100, 125>>),
     MarkupShape(<<97, 62, 98, 123, 32, 99, 58, 100, 32, 125>>)}

InitProject ==
    /\ pc = "new"
    /\ parsed_files \in Batches(ProjectShapes, 0, 2)
    /\ config \in {c \in ConfigDicts : c = <<>> \/ c.min_lines = c.min_tokens}
    /\ NothingFound
    /\ IdleHashing /\ IdleSimilarity

SpecProject == InitProject /\ [][Next]_vars

\* <<k, i>>: the window of min_tokens tokens of file k that starts at token i
TokenWindowPositions ==
    UNION {{<<k, i>> : i \in 1..(Len(parsed_files[k].tokens) - config.min_tokens + 1)} :
              k \in {x \in 1..Len(parsed_files) : HasKey(parsed_files[x], "tokens")}}

TokenWindowAt(ki) ==
    SubSeq(parsed_files[ki[1]].tokens, ki[2], ki[2] + config.min_tokens - 1)

\* the style segments of the batch
StyleSegments ==
    Flatten([k \in 1..Len(parsed_files) |-> ExtractCssSegments(parsed_files[k])])

\* no two files with equal whitespace-normalized text, no two equal dense line
\* windows, no two equal token windows, no file pair and no block pair that
\* reaches the threshold, no two blocks with equal signature, no two equal
\* style segments
NoDuplicatedContent ==
    /\ \A i \in 1..Len(parsed_files), j \in 1..Len(parsed_files) :
          i # j => /\ CollapseSpace(Strip(parsed_files[i].content))
                        # CollapseSpace(Strip(parsed_files[j].content))
                   /\ ~AtLeast(CalculateSimilarity(parsed_files[i], parsed_files[j]),
                               config.similarity_threshold)
    /\ \A p \in WindowPositions, q \in WindowPositions :
          (p # q /\ IsDense(WindowAt(p))) => WindowAt(p) # WindowAt(q)
    /\ \A p \in TokenWindowPositions, q \in TokenWindowPositions :
          p # q => TokenWindowAt(p) # TokenWindowAt(q)
    /\ \A p \in 1..Len(AllBlocks(parsed_files)), q \in 1..Len(AllBlocks(parsed_files)) :
          p # q =>
              /\ ~AtLeast(TokenSimilarity(AllBlocks(parsed_files)[p].tokens,
                                          AllBlocks(parsed_files)[q].tokens),
                          config.similarity_threshold)
              /\ \/ NormalizeBlock(AllBlocks(parsed_files)[p].block) = <<>>
                 \/ NormalizeBlock(AllBlocks(parsed_files)[p].block)
                        # NormalizeBlock(AllBlocks(parsed_files)[q].block)
    /\ \A p \in 1..Len(StyleSegments), q \in 1..Len(StyleSegments) :
          p # q => NormalizeCssText(StyleSegments[p].content)
                        # NormalizeCssText(StyleSegments[q].content)

\* C16: for a batch with zero duplicated content, the empty batch and a single
\* file without internal repetition included, find_duplicates returns the
\* empty sequence and analyze reports duplicates_found = 0; in every run
\* duplicates_found is the length of 'duplicates'.
NothingReportedWithoutDuplicatedContent ==
    /\ \A n \in 1..Len(analyses) :
          analyses[n].duplicates_found = Len(analyses[n].duplicates)
    /\ (Analysed /\ NoDuplicatedContent) =>
          /\ raised = "no"
          /\ duplicates = <<>>
          /\ \A n \in 1..Len(analyses) :
                analyses[n].raised = "no" /\ analyses[n].duplicates_found = 0

\* two Python files with a block each, sharing a line and a token, were
\* analysed and hold no duplicated content
CleanPairAnalysed ==
    /\ Analysed
    /\ NoDuplicatedContent
    /\ Len(parsed_files) = 2
    /\ Len(AllBlocks(parsed_files)) = 2
    /\ Range(parsed_files[1].lines) \cap Range(parsed_files[2].lines) # {}
    /\ Range(parsed_files[1].tokens) \cap Range(parsed_files[2].tokens) # {}

(***************************************************************************)
(* find_duplicates step by step: the five matchers, then the loop of       *)
(* _merge_duplicate_groups, then the merger again on its own result.       *)
(***************************************************************************)
InitMerge ==
    /\ pc = "merge_start"
    /\ parsed_files \in Batches(SourceShapes, 2, 2) \cup Batches(StyleShapes, 2, 2)
    /\ config \in {[min_lines |-> 1, min_tokens |-> 1, similarity_threshold |-> <<1, 2>>],
                    [min_lines |-> 2, min_tokens |-> 2, similarity_threshold |-> <<1, 1>>]}
    /\ NothingFound
    /\ IdleHashing /\ IdleSimilarity

\* lines 40-48 of find_duplicates: the matchers and all_duplicates, then the
\* first two lines of _merge_duplicate_groups
RunMatchers ==
    /\ pc = "merge_start"
    /\ \E seed \in HashSeeds :
          \E r \in {FindDuplicates(parsed_files, config.min_lines, config.min_tokens,
                                    config.similarity_threshold, seed)} :
             /\ raised' = r.raised
             /\ exact' = r.exact
             /\ token' = r.token
             /\ fuzzy' = r.fuzzy
             /\ structural' = r.structural
             /\ css_dups' = r.css_dups
             /\ all_dups' = r.exact \o r.token \o r.fuzzy \o r.structural \o r.css_dups
             /\ pc' = IF r.raised = "no" THEN "merge_loop" ELSE "merge_raised"
    /\ dup_index' = 0
    /\ seen' = <<>>
    /\ merged' = <<>>
    /\ UNCHANGED <<hashVars, tokVars, simVars, cfgVars, refVars, parVars, cliVars, duplicates, analyses>>

\* one turn of the loop of _merge_duplicate_groups (lines 415-426)
MergeStep ==
    /\ pc \in {"merge_loop", "remerge_loop"}
    /\ dup_index < Len(all_dups)
    /\ LET dup == all_dups[dup_index + 1]
           key == MergeKey(dup)
       IN IF \E k \in 1..Len(seen) : KeysEqual(seen[k], key)
          THEN UNCHANGED <<seen, merged>>
          ELSE /\ seen' = Append(seen, key)
               /\ merged' = Append(merged, dup)
    /\ dup_index' = dup_index + 1
    /\ UNCHANGED <<pc, hashVars, tokVars, simVars, cfgVars, refVars, parVars, cliVars, outVars, analyses,
                   all_dups>>

\* return merged
MergeReturn ==
    /\ pc \in {"merge_loop", "remerge_loop"}
    /\ dup_index = Len(all_dups)
    /\ duplicates' = merged
    /\ pc' = IF pc = "merge_loop" THEN "merge_done" ELSE "remerge_done"
    /\ UNCHANGED <<hashVars, tokVars, simVars, cfgVars, refVars, parVars, cliVars, mergeVars,
                   raised, exact, token, fuzzy, structural, css_dups, analyses>>

\* _merge_duplicate_groups on the list it returned
MergeAgain ==
    /\ pc = "merge_done"
    /\ all_dups' = duplicates
    /\ dup_index' = 0
    /\ seen' = <<>>
    /\ merged' = <<>>
    /\ pc' = "remerge_loop"
    /\ UNCHANGED <<hashVars, tokVars, simVars, cfgVars, refVars, parVars, cliVars, outVars, analyses>>

NextMerge == RunMatchers \/ MergeStep \/ MergeReturn \/ MergeAgain

SpecMerge == InitMerge /\ [][NextMerge]_vars

\* the two groups have the same identity: the same file paths if both carry
\* 'files', else the same members one by one if both carry 'blocks', else the
\* same text
SameIdentity(g1, g2) ==
    IF HasKey(g1, "files") \/ HasKey(g2, "files")
    THEN /\ HasKey(g1, "files") /\ HasKey(g2, "files")
         /\ Len(g1.files) = Len(g2.files)
         /\ \A f \in Range(g1.files) \cup Range(g2.files) :
               Cardinality({n \in 1..Len(g1.files) : g1.files[n] = f})
                   = Cardinality({n \in 1..Len(g2.files) : g2.files[n] = f})
    ELSE IF HasKey(g1, "blocks") \/ HasKey(g2, "blocks")
    THEN /\ HasKey(g1, "blocks") /\ HasKey(g2, "blocks")
         /\ Len(g1.blocks) = Len(g2.blocks)
         /\ \A n \in 1..Len(g1.blocks) : g1.blocks[n] = g2.blocks[n]
    ELSE g1 = g2

\* the positions taken so far that hold the first group of their identity
FirstOccurrences ==
    {n \in 1..dup_index :
        \A k \in 1..(n - 1) : ~SameIdentity(all_dups[k], all_dups[n])}

\* the merger is at work or has returned
Merging == pc \in {"merge_loop", "merge_done", "remerge_loop", "remerge_done"}

\* C18: the merger takes exact + token + fuzzy + structural + css in order and
\* keeps a group iff its identity key was not seen before: at every step and at
\* the end the merged list is an order-preserving subsequence of the input,
\* holds the first occurrence of every key and no two groups with the same key;
\* an exact and a fuzzy group over the same files are one entry, the exact one;
\* merging an already merged list changes nothing.
MergerKeepsFirstOfEachKey ==
    /\ pc \in {"merge_loop", "merge_done"} =>
          all_dups = exact \o token \o fuzzy \o structural \o css_dups
    /\ Merging =>
          /\ Len(merged) = Cardinality(FirstOccurrences)
          /\ \E at \in [1..Len(merged) -> FirstOccurrences] :
                /\ \A m \in 1..Len(merged) : merged[m] = all_dups[at[m]]
                /\ \A m \in 1..(Len(merged) - 1) : at[m] < at[m + 1]
          /\ \A m1 \in 1..Len(merged), m2 \in 1..Len(merged) :
                m1 # m2 => ~SameIdentity(merged[m1], merged[m2])
    /\ pc \in {"merge_done", "remerge_done"} =>
          /\ duplicates = merged
          /\ \A e \in Range(all_dups), f \in Range(all_dups) :
                (e.type = "exact" /\ f.type = "fuzzy" /\ Range(e.files) = Range(f.files)) =>
                    /\ e \in Range(duplicates)
                    /\ f \notin Range(duplicates)
    /\ pc = "remerge_done" => duplicates = all_dups

\* the merger has returned a list without the fuzzy group of two files that
\* are also an exact group
FuzzyGroupMergedIntoExact ==
    /\ pc = "merge_done"
    /\ Len(duplicates) < Len(all_dups)
    /\ \E e \in Range(all_dups), f \in Range(all_dups) :
          /\ e.type = "exact" /\ f.type = "fuzzy" /\ Range(e.files) = Range(f.files)
          /\ e \in Range(duplicates)



(***************************************************************************)
(* find_duplicates with its five matchers as concurrent processes and the  *)
(* merge after all of them have finished.                                  *)
(***************************************************************************)
\* two Python files with tokens and a block that has a body (one of them may
\* lack 'line_count'), or a stylesheet and a page
InitConcurrent ==
    /\ pc = "par_start"
    /\ parsed_files \in
          Batches({sh \in SourceShapes :
                     /\ sh.tokens # <<>> /\ sh.blocks # <<>>
                     /\ HasKey(sh.blocks[1], "body") /\ sh.blocks[1].body # None}, 2, 2)
             \cup Batches({sh \in StyleShapes : sh.extension # ".js"}, 2, 2)
    /\ config = [min_lines |-> 1, min_tokens |-> 1, similarity_threshold |-> <<1, 2>>]
    /\ NothingFound
    /\ IdleHashing /\ IdleSimilarity

\* the batch after a matcher that reverses the token list of each record in
\* place
BatchAfterReversingTokens(files) ==
    [k \in 1..Len(files) |->
        IF HasKey(files[k], "tokens")
        THEN [files[k] EXCEPT !.tokens = [n \in 1..Len(files[k].tokens) |->
                                            files[k].tokens[Len(files[k].tokens) + 1 - n]]]
        ELSE files[k]]

\* the batch after a matcher: the matchers read file_data['content'], ['lines'],
\* ['tokens'], ['blocks'] and ['path'], slice them into new lists, and assign to
\* no record and to no list of a record
BatchAfterMatcher(files) == files

\* a matcher that has not run yet runs to its end: it assigns to no attribute
\* of the detector and leaves everything but the results alone
MatcherDone(m) ==
    /\ pc = "par_start"
    /\ matcher_pc[m] = "ready"
    /\ matcher_pc' = [matcher_pc EXCEPT ![m] = "done"]
    /\ finished' = Append(finished, m)
    /\ parsed_files' = BatchAfterMatcher(parsed_files)
    /\ UNCHANGED <<pc, hashVars, tokVars, simVars, config, refVars, mergeVars, cliVars,
                   duplicates, analyses>>

\* exact = self.find_exact_duplicates(parsed_files)
RunExact ==
    /\ MatcherDone("exact")
    /\ \E seed \in HashSeeds :
          \E e \in {FindExactDuplicates(parsed_files, config.min_lines, seed)} :
             /\ raised' = IF e[1] = "ok" THEN "no" ELSE e[1]
             /\ exact' = e[2]
    /\ UNCHANGED <<token, fuzzy, structural, css_dups>>

\* token = self.find_token_duplicates(parsed_files)
RunToken ==
    /\ MatcherDone("token")
    /\ \E seed \in HashSeeds :
          token' = FindTokenDuplicates(parsed_files, config.min_tokens, seed)
    /\ UNCHANGED <<raised, exact, fuzzy, structural, css_dups>>

\* fuzzy = self.find_fuzzy_duplicates(parsed_files)
RunFuzzy ==
    /\ MatcherDone("fuzzy")
    /\ fuzzy' = FindFuzzyDuplicates(parsed_files, config.similarity_threshold)
    /\ UNCHANGED <<raised, exact, token, structural, css_dups>>

\* structural = self.find_structural_duplicates(parsed_files)
RunStructural ==
    /\ MatcherDone("structural")
    /\ structural' = FindStructuralDuplicates(parsed_files)
    /\ UNCHANGED <<raised, exact, token, fuzzy, css_dups>>

\* css_dups = self.find_css_duplicates(parsed_files)
RunCss ==
    /\ MatcherDone("css")
    /\ \E seed \in HashSeeds :
          css_dups' = FindCssDuplicates(parsed_files, config.min_lines, seed)
    /\ UNCHANGED <<raised, exact, token, fuzzy, structural>>

\* the results in the order the matchers finished
JoinedAsFinished(order) ==
    Flatten([k \in 1..Len(order) |->
                CASE order[k] = "exact" -> exact
                  [] order[k] = "token" -> token
                  [] order[k] = "fuzzy" -> fuzzy
                  [] order[k] = "structural" -> structural
                  [] OTHER -> css_dups])

\* all_duplicates = exact + token + fuzzy + structural + css_dups, whatever the
\* order the matchers finished in
JoinedInFixedOrder(order) == exact \o token \o fuzzy \o structural \o css_dups

\* the join: every matcher has finished; the exception of a matcher is raised
\* again, else the results are concatenated and merged
Join ==
    /\ pc = "par_start"
    /\ \A m \in Matchers : matcher_pc[m] = "done"
    /\ IF raised = "no"
       THEN /\ duplicates' = MergeDuplicateGroups(JoinedInFixedOrder(finished))
            /\ pc' = "par_done"
       ELSE /\ duplicates' = <<>>
            /\ pc' = "par_raised"
    /\ UNCHANGED <<hashVars, tokVars, simVars, cfgVars, refVars, mergeVars, parVars, cliVars,
                   raised, exact, token, fuzzy, structural, css_dups, analyses>>

NextConcurrent == RunExact \/ RunToken \/ RunFuzzy \/ RunStructural \/ RunCss \/ Join

SpecConcurrent == InitConcurrent /\ [][NextConcurrent]_vars

\* the sequential run of find_duplicates on the batch
SequentialRun ==
    FindDuplicates(parsed_files, config.min_lines, config.min_tokens,
                   config.similarity_threshold, 0)

\* the result variable of a matcher
ResultOf(m) ==
    CASE m = "exact" -> exact
      [] m = "token" -> token
      [] m = "fuzzy" -> fuzzy
      [] m = "structural" -> structural
      [] OTHER -> css_dups

\* what the matcher returns when it runs alone on the batch
AloneResultOf(m) ==
    CASE m = "exact" -> FindExactDuplicates(parsed_files, config.min_lines, 0)[2]
      [] m = "token" -> FindTokenDuplicates(parsed_files, config.min_tokens, 0)
      [] m = "fuzzy" -> FindFuzzyDuplicates(parsed_files, config.similarity_threshold)
      [] m = "structural" -> FindStructuralDuplicates(parsed_files)
      [] OTHER -> FindCssDuplicates(parsed_files, config.min_lines, 0)

DetectionFields(file_data) ==
    [key \in {"path", "content", "lines", "tokens", "blocks"} \cap DOMAIN file_data |->
        file_data[key]]

MaxDups == 3    \* most groups of an analysis given to the command line

\* dup.get('files', [])
GetFiles(dup) == IF HasKey(dup, "files") THEN dup.files ELSE <<>>

\* str(b.get('file', ''))
BlockFile(b) == IF HasKey(b, "file") THEN b.file ELSE <<>>

\* int(b.get('start_line', 0) or 0)
BlockStart(b) == IF HasKey(b, "start_line") THEN b.start_line ELSE 0

\* int(b.get('end_line', s) or s)
BlockEnd(b) ==
    IF HasKey(b, "end_line") /\ b.end_line # 0 THEN b.end_line ELSE BlockStart(b)

\* is_covered: one interval kept for the file shares at least
\* max(1, int(0.6 * length)) lines with start..end
IsCovered(coverage, file_path, start, end) ==
    LET length == Max(1, end - start + 1)
    IN \E iv \in coverage :
          /\ iv[1] = file_path
          /\ Max(0, Min(iv[3], end) - Max(iv[2], start) + 1)
                >= Max(1, (6 * length) \div 10)

\* the <<file, start, end>> of the blocks of a group, in the order of the blocks
BlockIntervals(dup) ==
    IF HasKey(dup, "blocks")
    THEN [n \in 1..Len(dup.blocks) |->
            <<BlockFile(dup.blocks[n]), BlockStart(dup.blocks[n]), BlockEnd(dup.blocks[n])>>]
    ELSE <<>>

RECURSIVE SuppressLoop(_, _, _)
\* the loop of _suppress_redundant_duplicates from group n on; st holds
\* seen_hashes, seen_exact_files, coverage and result
SuppressLoop(dups, n, st) ==
    IF n > Len(dups) THEN st.result
    ELSE LET dup == dups[n]
             dtype == IF HasKey(dup, "type") THEN dup.type ELSE "None"
             noted == IF HasKey(dup, "hash")
                       THEN [st EXCEPT !.seen_hashes = @ \cup {dup.hash}] ELSE st
             key == SortStrings(GetFiles(dup))
             ivs == BlockIntervals(dup)
         IN IF HasKey(dup, "hash") /\ dup.hash \in st.seen_hashes
            THEN SuppressLoop(dups, n + 1, st)
            ELSE IF dtype \in {"exact", "fuzzy"}
            THEN IF key \in noted.seen_exact_files
                 THEN SuppressLoop(dups, n + 1, noted)
                 ELSE SuppressLoop(dups, n + 1,
                                   [noted EXCEPT !.seen_exact_files = @ \cup {key},
                                                 !.result = Append(@, dup)])
            ELSE IF dtype = "exact_block" /\ Len(ivs) > 0
            THEN IF \A k \in 1..Len(ivs) :
                       IsCovered(noted.coverage, ivs[k][1], ivs[k][2], ivs[k][3])
                 THEN SuppressLoop(dups, n + 1, noted)
                 ELSE SuppressLoop(dups, n + 1,
                                   [noted EXCEPT !.coverage = @ \cup Range(ivs),
                                                 !.result = Append(@, dup)])
            ELSE SuppressLoop(dups, n + 1, [noted EXCEPT !.result = Append(@, dup)])

\* _suppress_redundant_duplicates
SuppressRedundantDuplicates(dups) ==
    SuppressLoop(dups, 1, [seen_hashes |-> {}, seen_exact_files |-> {},
                           coverage |-> {}, result |-> <<>>])

\* the dup_list print_results numbers from 1 on
PrintedList(analysis, max_show, suppress_duplicates) ==
    LET shown == IF max_show > 0 THEN Slice(analysis.duplicates, 0, max_show)
                 ELSE analysis.duplicates
    IN IF suppress_duplicates THEN SuppressRedundantDuplicates(shown) ELSE shown

RECURSIVE SplitOn(_, _)
\* text.split(sep) for a separator of one character
SplitOn(text, sep) ==
    LET at == {k \in 1..Len(text) : text[k] = sep}
    IN IF at = {} THEN <<text>>
       ELSE <<SubSeq(text, 1, Least(at) - 1)>>
                \o SplitOn(SubSeq(text, Least(at) + 1, Len(text)), sep)

RECURSIVE DigitsValue(_)
\* the number a sequence of decimal digits writes
DigitsValue(ds) ==
    IF Len(ds) = 0 THEN 0
    ELSE 10 * DigitsValue(SubSeq(ds, 1, Len(ds) - 1)) + (ds[Len(ds)] - 48)

\* int(text) for ASCII text without underscores: <<value>>, or None where
\* int raises ValueError
PyInt(text) ==
    LET s == Strip(text)
        signed == Len(s) > 0 /\ s[1] \in {43, 45}
        ds == IF signed THEN Tail(s) ELSE s
    IN IF Len(ds) = 0 \/ \E k \in 1..Len(ds) : ds[k] \notin 48..57 THEN None
       ELSE <<IF signed /\ s[1] = 45 THEN 0 - DigitsValue(ds) ELSE DigitsValue(ds)>>

\* the IDs one part of the selection adds to result
SelectionOfPart(part) ==
    IF Len(part) = 0 THEN {}
    ELSE IF 45 \in Range(part)
    THEN LET cut == Least({k \in 1..Len(part) : part[k] = 45})
             start == PyInt(SubSeq(part, 1, cut - 1))
             end == PyInt(SubSeq(part, cut + 1, Len(part)))
         IN IF start = None \/ end = None THEN {}
            ELSE IF start[1] <= end[1] THEN start[1]..end[1] ELSE {}
    ELSE IF PyInt(part) = None THEN {} ELSE {PyInt(part)[1]}

RECURSIVE SortedInts(_)
\* sorted(result) for a set of integers
SortedInts(S) ==
    IF S = {} THEN <<>> ELSE <<Least(S)>> \o SortedInts(S \ {Least(S)})

\* parse_selection
ParseSelection(text) ==
    LET parts == SplitOn(text, 44)
    IN SortedInts(UNION {SelectionOfPart(Strip(parts[k])) : k \in 1..Len(parts)})

\* an occurrence of an exact_block group
Occurrence(file, start_line, end_line) ==
    [file |-> file, start_line |-> start_line, end_line |-> end_line]

\* groups as the detector reports them, over the files "a" and "b": an exact
\* group and a fuzzy group of the same two files, a token_sequence group with
\* the hash of the exact group, and exact_block groups of the line ranges 1-4,
\* 3-6, 2-3 (5-8 in "b") and 2-3
CliGroups ==
    {[type |-> "exact", hash |-> <<104, 49>>, files |-> << <<97>>, <<98>> >>],
     [type |-> "fuzzy", files |-> << <<98>>, <<97>> >>],
     [type |-> "token_sequence", hash |-> <<104, 49>>],
     [type |-> "exact_block", hash |-> <<104, 50>>,
      blocks |-> <<Occurrence(<<97>>, 1, 4), Occurrence(<<98>>, 1, 4)>>],
     [type |-> "exact_block", hash |-> <<104, 51>>,
      blocks |-> <<Occurrence(<<97>>, 3, 6), Occurrence(<<98>>, 3, 6)>>],
     [type |-> "exact_block", hash |-> <<104, 52>>,
      blocks |-> <<Occurrence(<<97>>, 2, 3), Occurrence(<<98>>, 5, 8)>>],
     [type |-> "exact_block", hash |-> <<104, 53>>,
      blocks |-> <<Occurrence(<<97>>, 2, 3), Occurrence(<<98>>, 2, 3)>>]}

\* what is typed after --select or at the prompt: "", "x", "-1", "2-1",
\* "1, 3", "2 - 3", every ID "k" and every range "j-k" with j < k up to MaxDups
SelectionTexts ==
    {<<>>, <<120>>, <<45, 49>>, <<50, 45, 49>>, <<49, 44, 32, 51>>, <<50, 32, 45, 32, 51>>}
        \cup {<<48 + k>> : k \in 1..MaxDups}
        \cup {<<48 + p[1], 45, 48 + p[2]>> :
                 p \in {q \in (1..MaxDups) \X (1..MaxDups) : q[1] < q[2]}}

\* main has analysed a project with duplicates (lines 412-417) and is about to
\* ask which of them to refactor
InitCli ==
    /\ pc = "cli_start"
    /\ parsed_files = <<>> /\ config = <<>>
    /\ raised = "no" /\ exact = <<>> /\ token = <<>> /\ fuzzy = <<>>
    /\ structural = <<>> /\ css_dups = <<>>
    /\ duplicates \in SeqsUpTo(CliGroups, MaxDups) \ {<<>>}
    /\ analyses = <<[raised |-> "no", parsed_files |-> 2,
                     duplicates_found |-> Len(duplicates), duplicates |-> duplicates]>>
    /\ refactor_call = <<>> /\ refactoring_plan = <<>> /\ results = <<>>
    /\ all_dups = <<>> /\ dup_index = 0 /\ seen = <<>> /\ merged = <<>>
    /\ matcher_pc = [m \in Matchers |-> "ready"] /\ finished = <<>>
    /\ cli_args \in [max_show : 0..(MaxDups - 1), no_suppress_duplicates : BOOLEAN,
                     interactive : BOOLEAN]
    /\ dup_list = <<>> /\ selection_ids = <<>> /\ selected_dups = <<>>
    /\ IdleHashing /\ IdleSimilarity

\* the max_show main gives to print_results: args.max_show at line 403,
\* min(args.max_show, 10) if args.max_show > 0 else 0 at line 424
MaxShowOf(args) ==
    IF args.interactive THEN (IF args.max_show > 0 THEN Min(args.max_show, 10) ELSE 0)
    ELSE args.max_show

\* print_results with verbose or show_snippets set: from main line 403 (after
\* --analyze) or from main line 424 (before the prompt of --interactive)
PrintResults ==
    /\ pc = "cli_start"
    /\ analyses[1].duplicates_found > 0
    /\ dup_list' = PrintedList(analyses[1], MaxShowOf(cli_args),
                               ~cli_args.no_suppress_duplicates)
    /\ pc' = "cli_printed"
    /\ UNCHANGED <<hashVars, tokVars, simVars, cfgVars, outVars, analyses, refVars,
                   mergeVars, parVars, cli_args, selection_ids, selected_dups>>

\* [d for idx, d in enumerate(dups, start=1) if idx in ids]
SelectedByIds(dups, ids) ==
    LET at == SortedInts({k \in 1..Len(dups) : k \in Range(ids)})
    IN [n \in 1..Len(at) |-> dups[at[n]]]

\* main lines 419-436: the selection typed as raw after --select or at the
\* prompt, and the groups it picks from analysis['duplicates']
SelectDuplicates ==
    /\ pc = "cli_printed"
    /\ \E raw \in SelectionTexts :
          LET ids == ParseSelection(raw)
              chosen == SelectedByIds(analyses[1].duplicates, ids)
          IN IF cli_args.interactive /\ Strip(raw) = <<>>
             THEN /\ pc' = "cli_cancelled"
                  /\ UNCHANGED <<selection_ids, selected_dups>>
             ELSE /\ selection_ids' = (IF raw = <<>> THEN <<>> ELSE ids)
                  /\ selected_dups' = (IF ids = <<>> THEN analyses[1].duplicates
                                       ELSE chosen)
                  /\ pc' = (IF ids # <<>> /\ chosen = <<>> THEN "cli_no_valid"
                            ELSE "cli_selected")
    /\ UNCHANGED <<hashVars, tokVars, simVars, cfgVars, outVars, analyses, refVars,
                   mergeVars, parVars, cli_args, dup_list>>

NextCli == PrintResults \/ SelectDuplicates

SpecCli == InitCli /\ [][NextCli]_vars

\* the list print_results gave to _suppress_redundant_duplicates
SuppressInput ==
    IF MaxShowOf(cli_args) > 0 THEN Slice(duplicates, 0, MaxShowOf(cli_args))
    ELSE duplicates

\* every line of the range lies in a range of the same file in kept
LinesCovered(kept, iv) ==
    \A line \in iv[2]..iv[3] :
        \E c \in kept : c[1] = iv[1] /\ c[2] <= line /\ line <= c[3]

\* the groups of dups at the positions in at, in the order of dups
GroupsAt(dups, at) == SelectedByIds(dups, SortedInts(at))

\* the positions in at are the groups the rules keep: the group at k is dropped
\* exactly when its hash is the hash of an earlier group, or it is an exact or
\* fuzzy group with the sorted files of an earlier kept exact or fuzzy group,
\* or it is an exact_block group each of whose ranges is covered by ranges of
\* earlier kept groups of the same file
KeptByRules(dups, at) ==
    \A k \in 1..Len(dups) :
        LET dup == dups[k]
            hash_seen ==
                /\ HasKey(dup, "hash")
                /\ \E j \in 1..(k - 1) : HasKey(dups[j], "hash") /\ dups[j].hash = dup.hash
            files_seen ==
                /\ dup.type \in {"exact", "fuzzy"}
                /\ \E j \in {i \in at : i < k} :
                      /\ dups[j].type \in {"exact", "fuzzy"}
                      /\ SortStrings(GetFiles(dups[j])) = SortStrings(GetFiles(dup))
            kept == UNION {Range(BlockIntervals(dups[j])) : j \in {i \in at : i < k}}
            all_covered ==
                /\ dup.type = "exact_block"
                /\ \A iv \in Range(BlockIntervals(dup)) : LinesCovered(kept, iv)
        IN k \in at <=> ~(hash_seen \/ files_seen \/ all_covered)

\* C29: _suppress_redundant_duplicates returns an order-preserving subsequence
\* of its input that keeps the first group, drops a group whose hash was seen
\* earlier, drops an exact or fuzzy group whose sorted file tuple was seen
\* earlier, and drops a later exact_block group only when every one of its
\* block ranges is covered by block ranges of previously kept groups in the
\* same file; an exact_block group with a range that is not covered is kept.
SuppressionDropsOnlyCoveredGroups ==
    (pc # "cli_start" /\ ~cli_args.no_suppress_duplicates) =>
        \E at \in SUBSET (1..Len(SuppressInput)) :
            /\ 1 \in at
            /\ KeptByRules(SuppressInput, at)
            /\ dup_list = GroupsAt(SuppressInput, at)

\* C30: the ID printed in front of a duplicate selects that duplicate: when
\* every selected ID is the ID of a printed entry, selected_dups holds exactly
\* the printed entries with those IDs, for every max_show and with or without
\* suppression.
PrintedIdSelectsPrintedDuplicate ==
    (pc \in {"cli_selected", "cli_no_valid"} /\ selection_ids # <<>>
        /\ \A n \in 1..Len(selection_ids) : selection_ids[n] \in 1..Len(dup_list)) =>
        selected_dups = [n \in 1..Len(selection_ids) |-> dup_list[selection_ids[n]]]

====
